---- MODULE Spec2Model ----
(***************************************************************************)
(* Model of the configuration store in src/src/config.rs: the layered      *)
(* option resolver (OVERWRITE > stored > DEFAULT), the identity and        *)
(* network singletons with their files, and the trusted-devices            *)
(* sub-protocol with its in-memory cache.                                  *)
(***************************************************************************)
EXTENDS Integers, Sequences, FiniteSets, TLC

VARIABLES
    family,                     \* the option family the host addresses in this run
    OVERWRITE_SETTINGS,         \* HashMap<String, String>
    DEFAULT_SETTINGS,
    OVERWRITE_LOCAL_SETTINGS,
    DEFAULT_LOCAL_SETTINGS,
    OVERWRITE_DISPLAY_SETTINGS,
    DEFAULT_DISPLAY_SETTINGS,
    HARD_SETTINGS,
    CONFIG,                     \* RwLock<Config>: the identity singleton
    CONFIG2,                    \* RwLock<Config2>: the network singleton
    LOCAL_CONFIG,               \* RwLock<LocalConfig>
    USER_DEFAULT_CONFIG,        \* RwLock<(UserDefaultConfig, Instant)>
    TRUSTED_DEVICES,            \* RwLock<(Vec<TrustedDevice>, bool)>
    file_config,                \* <AppName>.toml
    file_config2,               \* <AppName>2.toml
    file_local,                 \* <AppName>_local.toml
    file_default,               \* <AppName>_default.toml
    file_book,                  \* <AppName>_ab and <AppName>_group
    file_peer,                  \* peers/<id>.toml, per peer id
    NEW_STORED_PEER_CONFIG,     \* Mutex<HashSet<String>>
    KEY_PAIR,                   \* Mutex<Option<KeyPair>>: the holder of the mutex, the slot
    spawned,                    \* the key pairs that spawned threads have yet to store
    observed,                   \* the calls of sign::gen_keypair, the key pairs returned
    ONLINE,                     \* Mutex<HashMap<String, i64>>
    EXE_RENDEZVOUS_SERVER,      \* RwLock<String>
    PROD_RENDEZVOUS_SERVER,     \* RwLock<String>
    STATUS,                     \* RwLock<Status>: the values
    file_status,                \* <AppName>_status.toml
    rlock,                      \* per lock: the threads holding a read guard
    now,                        \* crate::get_time(), counted in days
    wlock,                      \* per lock: the thread holding the write guard, 0 if none
    pc,                         \* per thread: position in the running operation
    loc,                        \* per thread: the locals of the running operation
    last                        \* the last completed call: operation, arguments, result

vars == << family, OVERWRITE_SETTINGS, DEFAULT_SETTINGS, OVERWRITE_LOCAL_SETTINGS,
           DEFAULT_LOCAL_SETTINGS, OVERWRITE_DISPLAY_SETTINGS, DEFAULT_DISPLAY_SETTINGS,
           HARD_SETTINGS, CONFIG, CONFIG2, LOCAL_CONFIG, USER_DEFAULT_CONFIG,
           TRUSTED_DEVICES, file_config, file_config2, file_local, file_default,
           file_book, file_peer, NEW_STORED_PEER_CONFIG, KEY_PAIR, spawned, observed, ONLINE,
           EXE_RENDEZVOUS_SERVER, PROD_RENDEZVOUS_SERVER, STATUS, file_status, rlock,
           now, wlock, pc, loc, last >>

\* the state outside the option families, the identity and the network record
keyVars == << KEY_PAIR, spawned, observed >>

\* the statics that the embedding program writes
staticVars == << EXE_RENDEZVOUS_SERVER, PROD_RENDEZVOUS_SERVER >>

\* the status record, and the read guards
statusVars == << STATUS, file_status, rlock >>

extVars == << file_book, file_peer, NEW_STORED_PEER_CONFIG, keyVars, ONLINE, staticVars,
             statusVars >>

\* the singletons behind a RwLock that a run follows
Locks == {"CONFIG", "CONFIG2", "TRUSTED_DEVICES", "LOCAL_CONFIG", "STATUS", "ONLINE",
          "OVERWRITE_SETTINGS", "DEFAULT_SETTINGS"}

\* RwLock::write returns when no guard is held, RwLock::read when no write guard is
CanWrite(l) == wlock[l] = 0 /\ rlock[l] = {}

CanRead(l) == wlock[l] = 0

optVars == << OVERWRITE_SETTINGS, DEFAULT_SETTINGS, OVERWRITE_LOCAL_SETTINGS,
              DEFAULT_LOCAL_SETTINGS, OVERWRITE_DISPLAY_SETTINGS,
              DEFAULT_DISPLAY_SETTINGS, HARD_SETTINGS >>

(***************************************************************************)
(* Option<T> and HashMap<String, String>                                   *)
(***************************************************************************)
None == << >>
Some(v) == << v >>

\* Option::or
OptOr(a, b) == IF a # None THEN a ELSE b

\* Option::unwrap_or_default on Option<String>
UnwrapOrDefault(a) == IF a = None THEN "" ELSE a[1]

EmptyMap == [x \in {} |-> ""]

\* HashMap::get
MapGet(m, k) == IF k \in DOMAIN m THEN Some(m[k]) ELSE None

\* HashMap::insert
MapInsert(m, k, v) == [x \in DOMAIN m \cup {k} |-> IF x = k THEN v ELSE m[x]]

\* HashMap::remove
MapRemove(m, k) == [x \in DOMAIN m \ {k} |-> m[x]]

\* HashMap::extend: entries of m2 replace those of m1
MapExtend(m1, m2) ==
    [x \in DOMAIN m1 \cup DOMAIN m2 |-> IF x \in DOMAIN m2 THEN m2[x] ELSE m1[x]]

PartialMaps(K, V) == UNION {[D -> V] : D \in SUBSET K}

(***************************************************************************)
(* Strings that pass through the secret layer.  A string is modelled by    *)
(* its version prefix (empty for plaintext) and its text; the text of a    *)
(* JSON document is the tag JsonTag together with the list it encodes.     *)
(***************************************************************************)
JsonTag == "[json]"

PASSWORD_ENC_VERSION == "00"

\* a string that is itself a ciphertext: the version prefix and the encrypted text of "i4"
EncryptedI4 == "00<i4>"

Text(s) ==
    IF s = EncryptedI4 THEN [ver |-> PASSWORD_ENC_VERSION, s |-> "i4", devs |-> << >>]
    ELSE [ver |-> "", s |-> s, devs |-> << >>]

ENCRYPT_MAX_LEN == 128

\* bytes of one serialized TrustedDevice without its name:
\* {"hwid":[],"time":0,"id":"","name":"","platform":""}
DeviceJsonOverhead == 52

\* the names a device may carry, with their lengths in bytes
NameLen(name) == IF name = "huge" THEN 1048576 ELSE 2

RECURSIVE SumLen(_)
SumLen(devs) ==
    IF devs = << >> THEN 0
    ELSE DeviceJsonOverhead + NameLen(Head(devs).name) + 1 + SumLen(Tail(devs))

\* devices.bytes().len() of the JSON text of a list: brackets, entries, commas
JsonLen(devs) == IF devs = << >> THEN 2 ELSE 1 + SumLen(devs)

StrLen(t) == IF t.s = JsonTag THEN JsonLen(t.devs) ELSE Len(t.s)

\* serde_json::to_string(&Vec<TrustedDevice>)
to_string(devs) == [ver |-> "", s |-> JsonTag, devs |-> devs]

\* serde_json::from_str::<Vec<TrustedDevice>>(..).unwrap_or_default()
from_str(t) == IF t.ver = "" /\ t.s = JsonTag THEN t.devs ELSE << >>

\* password_security::decrypt_str_or_original -> (plain, was_encrypted, needs_rewrite)
decrypt_str_or_original(t, version) ==
    IF t.ver = version
    THEN << [t EXCEPT !.ver = ""], TRUE, FALSE >>
    ELSE << t, FALSE, t # Text("") >>

\* password_security::encrypt_str_or_original
encrypt_str_or_original(t, version, max_len) ==
    IF decrypt_str_or_original(t, version)[2] THEN t
    ELSE IF StrLen(t) > max_len THEN t
    ELSE [t EXCEPT !.ver = version]

(***************************************************************************)
(* Option resolver                                                         *)
(***************************************************************************)
\* the stored map consulted before the overwrite map
get_or_StoredFirst(a, b, c, k) == OptOr(OptOr(MapGet(b, k), MapGet(a, k)), MapGet(c, k))

get_or(a, b, c, k) == OptOr(OptOr(MapGet(a, k), MapGet(b, k)), MapGet(c, k))

\* the default map is not consulted
is_option_can_save_NoDefault(overwrite, k, defaults, v) ==
    IF k \in DOMAIN overwrite THEN FALSE ELSE TRUE

is_option_can_save(overwrite, k, defaults, v) ==
    IF k \in DOMAIN overwrite \/ (k \in DOMAIN defaults /\ defaults[k] = v)
    THEN FALSE
    ELSE TRUE

OPTION_LANGUAGE == "lang"

OPTION_VIEW_STYLE == "view_style"

\* the unlock PIN written as it is
Config2_store_PlainPin(cfg) ==
    [cfg EXCEPT
       !.socks = IF cfg.socks = None THEN None
                 ELSE Some([cfg.socks[1] EXCEPT !.password =
                        encrypt_str_or_original(Text(cfg.socks[1].password),
                                                PASSWORD_ENC_VERSION, ENCRYPT_MAX_LEN)]),
       !.unlock_pin = Text(cfg.unlock_pin)]

\* Config2::store: the record written to <AppName>2.toml
Config2_store(cfg) ==
    [cfg EXCEPT
       !.socks = IF cfg.socks = None THEN None
                 ELSE Some([cfg.socks[1] EXCEPT !.password =
                        encrypt_str_or_original(Text(cfg.socks[1].password),
                                                PASSWORD_ENC_VERSION, ENCRYPT_MAX_LEN)]),
       !.unlock_pin =
          encrypt_str_or_original(Text(cfg.unlock_pin), PASSWORD_ENC_VERSION, ENCRYPT_MAX_LEN)]

\* the id is left in the record that is written
Config_store_KeepId(cfg) ==
    [cfg EXCEPT
       !.password = encrypt_str_or_original(Text(cfg.password), PASSWORD_ENC_VERSION,
                                            ENCRYPT_MAX_LEN),
       !.enc_id = encrypt_str_or_original(Text(cfg.id), PASSWORD_ENC_VERSION, ENCRYPT_MAX_LEN)]

\* Config::store: the record written to <AppName>.toml
Config_store(cfg) ==
    [cfg EXCEPT
       !.password = encrypt_str_or_original(Text(cfg.password), PASSWORD_ENC_VERSION,
                                            ENCRYPT_MAX_LEN),
       !.enc_id = encrypt_str_or_original(Text(cfg.id), PASSWORD_ENC_VERSION, ENCRYPT_MAX_LEN),
       !.id = ""]

\* LocalConfig::store
LocalConfig_store(cfg) == cfg

\* UserDefaultConfig::store
UserDefaultConfig_store(cfg) == cfg

\* UserDefaultConfig::load
UserDefaultConfig_load == file_default

\* the stored options applied last
Config_get_options_StoredLast ==
    MapExtend(MapExtend(DEFAULT_SETTINGS, OVERWRITE_SETTINGS), CONFIG2.options)

Config_get_options ==
    MapExtend(MapExtend(DEFAULT_SETTINGS, CONFIG2.options), OVERWRITE_SETTINGS)

\* only the overwrite-shadowed entries are removed
Config_purify_options_OverwriteOnly(v) ==
    [x \in {k \in DOMAIN v : k \notin DOMAIN OVERWRITE_SETTINGS} |-> v[x]]

\* v.retain(|k, v| is_option_can_save(&OVERWRITE_SETTINGS, k, &DEFAULT_SETTINGS, v))
Config_purify_options(v) ==
    [x \in {k \in DOMAIN v :
                is_option_can_save(OVERWRITE_SETTINGS, k, DEFAULT_SETTINGS, v[k])} |-> v[x]]

Config_get_option(k) ==
    UnwrapOrDefault(get_or(OVERWRITE_SETTINGS, CONFIG2.options, DEFAULT_SETTINGS, k))

LocalConfig_get_option(k) ==
    UnwrapOrDefault(get_or(OVERWRITE_LOCAL_SETTINGS, LOCAL_CONFIG.options,
                           DEFAULT_LOCAL_SETTINGS, k))

UserDefaultConfig_get_after(self, k) ==
    get_or(OVERWRITE_DISPLAY_SETTINGS, self.options, DEFAULT_DISPLAY_SETTINGS, k)

UserDefaultConfig_get_string(self, key, default, others) ==
    LET option == UserDefaultConfig_get_after(self, key) IN
    IF option # None
    THEN IF option[1] \in others THEN option[1] ELSE default
    ELSE default

OPTION_TRACKPAD_SPEED == "trackpad-speed"

OPTION_CUSTOM_IMAGE_QUALITY == "custom_image_quality"

\* the decimal texts of the numbers that occur in a run
NumText ==
    ("5" :> 5) @@ ("9" :> 9) @@ ("10" :> 10) @@ ("50" :> 50) @@ ("100" :> 100)
    @@ ("200" :> 200) @@ ("1000" :> 1000) @@ ("1001" :> 1001) @@ ("4095" :> 4095)
    @@ ("4096" :> 4096)

\* str::parse::<T>().ok(): a text that is no number gives None
parse(s) == IF s \in DOMAIN NumText THEN Some(NumText[s]) ELSE None

\* T::to_string
num_to_string(n) == CHOOSE s \in DOMAIN NumText : NumText[s] = n

UserDefaultConfig_get_num_string(self, key, default, min, max) ==
    LET option == UserDefaultConfig_get_after(self, key) IN
    IF option # None
    THEN LET v == IF parse(option[1]) = None THEN default ELSE parse(option[1])[1] IN
         IF v >= min /\ v <= max THEN num_to_string(v) ELSE num_to_string(default)
    ELSE num_to_string(default)

UserDefaultConfig_get(self, key) ==
    IF key = OPTION_VIEW_STYLE
    THEN UserDefaultConfig_get_string(self, key, "original", {"adaptive"})
    ELSE IF key = OPTION_CUSTOM_IMAGE_QUALITY
    THEN UserDefaultConfig_get_num_string(self, key, 50, 10, 4095)
    ELSE IF key = OPTION_TRACKPAD_SPEED
    THEN UserDefaultConfig_get_num_string(self, key, 100, 10, 1000)
    ELSE UnwrapOrDefault(UserDefaultConfig_get_after(self, key))

(***************************************************************************)
(* Option operations.  Each runs as one step: the write guard of the       *)
(* singleton is held from the comparison to the end of store().            *)
(***************************************************************************)
OptKeys == {"a", "b"}
OptVals == {"x", "y"}
LocalKeys == {"a", OPTION_LANGUAGE}
LocalVals == {"x", "default"}
DisplayKeys == {"a", OPTION_VIEW_STYLE}
DisplayVals == {"x", "adaptive"}

otherVars == << family, optVars, extVars, CONFIG, TRUSTED_DEVICES, file_config, now, wlock, pc,
               loc >>

Config_get_options_call ==
    /\ family = "settings"
    /\ last' = [op |-> "Config::get_options", ret |-> Config_get_options]
    /\ UNCHANGED << otherVars, CONFIG2, file_config2, LOCAL_CONFIG, file_local,
                    USER_DEFAULT_CONFIG, file_default >>

Config_get_option_call(k) ==
    /\ family = "settings"
    /\ last' = [op |-> "Config::get_option", k |-> k, ret |-> Config_get_option(k)]
    /\ UNCHANGED << otherVars, CONFIG2, file_config2, LOCAL_CONFIG, file_local,
                    USER_DEFAULT_CONFIG, file_default >>

Config_set_options(m) ==
    /\ family = "settings"
    /\ LET v == Config_purify_options(m) IN
       IF CONFIG2.options = v
       THEN UNCHANGED << CONFIG2, file_config2 >>
       ELSE /\ CONFIG2' = [CONFIG2 EXCEPT !.options = v]
            /\ file_config2' = Config2_store(CONFIG2')
    /\ last' = [op |-> "Config::set_options", m |-> m]
    /\ UNCHANGED << otherVars, LOCAL_CONFIG, file_local, USER_DEFAULT_CONFIG, file_default >>

\* an empty value is inserted instead of removing the key
Config_set_option_NoRemove(k, v) ==
    /\ family = "settings"
    /\ IF ~is_option_can_save(OVERWRITE_SETTINGS, k, DEFAULT_SETTINGS, v)
       THEN UNCHANGED << CONFIG2, file_config2 >>
       ELSE /\ CONFIG2' = [CONFIG2 EXCEPT !.options = MapInsert(@, k, v)]
            /\ file_config2' = Config2_store(CONFIG2')
    /\ last' = [op |-> "Config::set_option", k |-> k, v |-> v]
    /\ UNCHANGED << otherVars, LOCAL_CONFIG, file_local, USER_DEFAULT_CONFIG, file_default >>

Config_set_option(k, v) ==
    /\ family = "settings"
    /\ IF ~is_option_can_save(OVERWRITE_SETTINGS, k, DEFAULT_SETTINGS, v)
       THEN UNCHANGED << CONFIG2, file_config2 >>
       ELSE LET v2 == IF v = "" THEN None ELSE Some(v) IN
            IF v2 # MapGet(CONFIG2.options, k)
            THEN /\ CONFIG2' = [CONFIG2 EXCEPT !.options =
                        IF v2 = None THEN MapRemove(@, k) ELSE MapInsert(@, k, v)]
                 /\ file_config2' = Config2_store(CONFIG2')
            ELSE UNCHANGED << CONFIG2, file_config2 >>
    /\ last' = [op |-> "Config::set_option", k |-> k, v |-> v]
    /\ UNCHANGED << otherVars, LOCAL_CONFIG, file_local, USER_DEFAULT_CONFIG, file_default >>

LocalConfig_get_option_call(k) ==
    /\ family = "local"
    /\ last' = [op |-> "LocalConfig::get_option", k |-> k, ret |-> LocalConfig_get_option(k)]
    /\ UNCHANGED << otherVars, CONFIG2, file_config2, LOCAL_CONFIG, file_local,
                    USER_DEFAULT_CONFIG, file_default >>

LocalConfig_set_option(k, v) ==
    /\ family = "local"
    /\ IF ~is_option_can_save(OVERWRITE_LOCAL_SETTINGS, k, DEFAULT_LOCAL_SETTINGS, v)
       THEN UNCHANGED << LOCAL_CONFIG, file_local >>
       ELSE LET is_custom_client_default_lang == k = OPTION_LANGUAGE /\ v = "default"
                v2 == IF v = "" THEN None ELSE Some(v)
            IN
            IF is_custom_client_default_lang
            THEN /\ LOCAL_CONFIG' = [LOCAL_CONFIG EXCEPT !.options = MapInsert(@, k, "")]
                 /\ file_local' = LocalConfig_store(LOCAL_CONFIG')
            ELSE IF v2 # MapGet(LOCAL_CONFIG.options, k)
            THEN /\ LOCAL_CONFIG' = [LOCAL_CONFIG EXCEPT !.options =
                        IF v2 = None THEN MapRemove(@, k) ELSE MapInsert(@, k, v)]
                 /\ file_local' = LocalConfig_store(LOCAL_CONFIG')
            ELSE UNCHANGED << LOCAL_CONFIG, file_local >>
    /\ last' = [op |-> "LocalConfig::set_option", k |-> k, v |-> v]
    /\ UNCHANGED << otherVars, CONFIG2, file_config2, USER_DEFAULT_CONFIG, file_default >>

\* UserDefaultConfig::read: the singleton is re-read from the file when more than
\* one second has elapsed since it was loaded
UserDefaultConfig_read(key, elapsed) ==
    /\ family = "display"
    /\ USER_DEFAULT_CONFIG' = IF elapsed THEN UserDefaultConfig_load ELSE USER_DEFAULT_CONFIG
    /\ last' = [op |-> "UserDefaultConfig::read", k |-> key,
                ret |-> UserDefaultConfig_get(USER_DEFAULT_CONFIG', key)]
    /\ UNCHANGED << otherVars, CONFIG2, file_config2, LOCAL_CONFIG, file_local, file_default >>

\* UserDefaultConfig::load().set(key, value): the receiver is a copy loaded from the file
UserDefaultConfig_set(key, value) ==
    /\ family = "display"
    /\ LET self == UserDefaultConfig_load IN
       IF ~is_option_can_save(OVERWRITE_DISPLAY_SETTINGS, key, DEFAULT_DISPLAY_SETTINGS, value)
       THEN UNCHANGED file_default
       ELSE file_default' = UserDefaultConfig_store(
                [self EXCEPT !.options =
                    IF value = "" THEN MapRemove(@, key) ELSE MapInsert(@, key, value)])
    /\ last' = [op |-> "UserDefaultConfig::set", k |-> key, v |-> value]
    /\ UNCHANGED << otherVars, CONFIG2, file_config2, LOCAL_CONFIG, file_local,
                    USER_DEFAULT_CONFIG >>

\* ---- PeerConfig and its file ----
PeerIds == {"peer1"}

\* the options that store_ encrypts and load decrypts
PeerSecretOptions == {"rdp_password", "os-username", "os-password"}

PeerConfig_default == [password |-> "", platform |-> "", options |-> EmptyMap]

\* the record store_ hands to store_path
PeerConfig_store_(cfg) ==
    [cfg EXCEPT
       !.password = encrypt_str_or_original(Text(cfg.password), PASSWORD_ENC_VERSION,
                                            ENCRYPT_MAX_LEN),
       !.options = [opt \in DOMAIN cfg.options |->
                      IF opt \in PeerSecretOptions
                      THEN encrypt_str_or_original(Text(cfg.options[opt]), PASSWORD_ENC_VERSION,
                                                   ENCRYPT_MAX_LEN)
                      ELSE Text(cfg.options[opt])]]

\* the record load makes of the file record, and whether it is stored again
PeerConfig_load_(file) ==
    LET password == decrypt_str_or_original(file.password, PASSWORD_ENC_VERSION)
        secrets == DOMAIN file.options \cap PeerSecretOptions
    IN [config |-> [file EXCEPT
                      !.password = password[1].s,
                      !.options = [opt \in DOMAIN file.options |->
                          IF opt \in secrets
                          THEN decrypt_str_or_original(file.options[opt],
                                                       PASSWORD_ENC_VERSION)[1].s
                          ELSE file.options[opt].s]],
        store |-> \/ password[3]
                  \/ \E opt \in secrets :
                        decrypt_str_or_original(file.options[opt], PASSWORD_ENC_VERSION)[3]]

\* no file of the peer; a file is Some(record)
NoPeerFile == None

\* the peer files found at the start: none, or one written before the secrets were encrypted
InitPeerFiles ==
    {NoPeerFile,
     Some([password |-> Text("p1"), platform |-> "Linux",
           options |-> [opt \in {"os-password"} |-> Text("p1")]])}

\* the most peers of a run
MaxPeers == 250

\* the numbers of peer files found at the start
BatchSizes == {0, 1, 99, 100, 101, 199, 200, 201, MaxPeers}

\* the files of n peers; every seventh has no platform
BatchFiles(n) ==
    [id \in 1 .. n |->
       Some(PeerConfig_store_([PeerConfig_default EXCEPT
                                 !.platform = IF id % 7 = 0 THEN "" ELSE "Linux"]))]

\* no address book and no group book on disk
NoFile == [exists |-> FALSE, crypt |-> FALSE, zip |-> FALSE, text |-> ""]

NoBooks == [book \in {"ab", "group"} |-> NoFile]

\* RwLock<String> statics, empty unless the embedding program has written them
StaticInit ==
    /\ EXE_RENDEZVOUS_SERVER \in
           IF family = "rendezvous" THEN {<< >>, << "e" >>, << "e", ":", "1" >>} ELSE {<< >>}
    /\ PROD_RENDEZVOUS_SERVER \in
           IF family = "rendezvous" THEN {<< >>, << "p" >>} ELSE {<< >>}

\* the state outside the entities of a run, when the run does not address it
ExtInit ==
    /\ file_book = NoBooks
    /\ file_peer \in CASE family \in {"peer", "migrate_peer"} -> [PeerIds -> InitPeerFiles]
                       [] family \in {"path", "listed"} -> {EmptyMap}
                       [] family \in {"batch", "chain"} -> {BatchFiles(n) : n \in BatchSizes}
                       [] OTHER -> {[id \in PeerIds |-> NoPeerFile]}
    /\ NEW_STORED_PEER_CONFIG = {}
    /\ KEY_PAIR = [lock |-> 0, slot |-> None]
    /\ spawned = {}
    /\ observed = [gen_keypair |-> 0, returned |-> << >>]
    /\ ONLINE = EmptyMap
    /\ StaticInit
    /\ STATUS = EmptyMap
    /\ file_status = EmptyMap
    /\ rlock = [l \in Locks |-> {}]

\* Size is (x, y, w, h)
LocalConfig_default ==
    [kb_layout_type |-> "", size |-> << 0, 0, 0, 0 >>, options |-> EmptyMap]

Config2_default ==
    [rendezvous_server |-> "", nat_type |-> 0, serial |-> 0, unlock_pin |-> "", trusted_devices |-> Text(""),
     socks |-> None, options |-> EmptyMap]

\* key_pair is 0 when empty, and the number of a key pair otherwise
Config_default ==
    [id |-> "", enc_id |-> Text(""), password |-> "", salt |-> "", key_pair |-> 0,
     key_confirmed |-> FALSE, keys_confirmed |-> EmptyMap]

NoCall == [op |-> "none"]

\* The setting maps are filled by the host before the options are used and the
\* stored options come from the files; the three families share no state, and a
\* run addresses one of them.
InitOptions ==
    /\ family \in {"settings", "local", "display"}
    /\ OVERWRITE_SETTINGS \in
         IF family = "settings" THEN PartialMaps(OptKeys, OptVals) ELSE {EmptyMap}
    /\ DEFAULT_SETTINGS \in
         IF family = "settings" THEN PartialMaps(OptKeys, OptVals) ELSE {EmptyMap}
    /\ \E o \in IF family = "settings" THEN PartialMaps(OptKeys, OptVals) ELSE {EmptyMap} :
         CONFIG2 = [Config2_default EXCEPT !.options = o]
    /\ file_config2 = Config2_store(CONFIG2)
    /\ OVERWRITE_LOCAL_SETTINGS \in
         IF family = "local" THEN PartialMaps(LocalKeys, LocalVals) ELSE {EmptyMap}
    /\ DEFAULT_LOCAL_SETTINGS \in
         IF family = "local" THEN PartialMaps(LocalKeys, LocalVals) ELSE {EmptyMap}
    /\ \E o \in IF family = "local" THEN PartialMaps(LocalKeys, LocalVals) ELSE {EmptyMap} :
         LOCAL_CONFIG = [LocalConfig_default EXCEPT !.options = o]
    /\ file_local = LocalConfig_store(LOCAL_CONFIG)
    /\ OVERWRITE_DISPLAY_SETTINGS \in
         IF family = "display" THEN PartialMaps(DisplayKeys, DisplayVals) ELSE {EmptyMap}
    /\ DEFAULT_DISPLAY_SETTINGS \in
         IF family = "display" THEN PartialMaps(DisplayKeys, DisplayVals) ELSE {EmptyMap}
    /\ \E o \in IF family = "display" THEN PartialMaps(DisplayKeys, DisplayVals) ELSE {EmptyMap} :
         file_default = [options |-> o]
    /\ USER_DEFAULT_CONFIG = UserDefaultConfig_load
    /\ ExtInit
    /\ HARD_SETTINGS = EmptyMap
    /\ CONFIG = Config_default
    /\ file_config = Config_store(CONFIG)
    /\ TRUSTED_DEVICES = << << >>, FALSE >>
    /\ now = 0
    /\ wlock = [l \in Locks |-> 0]
    /\ pc = << >>
    /\ loc = << >>
    /\ last = NoCall

NextOptions ==
    \/ Config_get_options_call
    \/ \E k \in OptKeys : Config_get_option_call(k)
    \/ \E m \in PartialMaps(OptKeys, OptVals \cup {""}) : Config_set_options(m)
    \/ \E k \in OptKeys, v \in OptVals \cup {""} : Config_set_option(k, v)
    \/ \E k \in LocalKeys : LocalConfig_get_option_call(k)
    \/ \E k \in LocalKeys, v \in LocalVals \cup {""} : LocalConfig_set_option(k, v)
    \/ \E k \in DisplayKeys, elapsed \in BOOLEAN : UserDefaultConfig_read(k, elapsed)
    \/ \E k \in DisplayKeys, v \in DisplayVals \cup {""} : UserDefaultConfig_set(k, v)

SpecOptions == InitOptions /\ [][NextOptions]_vars

(***************************************************************************)
(* Identity, network record and trusted devices.  These operations take    *)
(* several locks, so each runs as a sequence of steps of the calling       *)
(* thread: one step per lock acquisition, file write and cache update.     *)
(***************************************************************************)
Threads == DOMAIN pc

\* TrustedDevice::outdate; the clock and the timestamps are counted in days
DAYS_90 == 90

outdate(self) == self.time + DAYS_90 < now

\* devices.retain(|d| !d.outdate())
RetainFresh(devices) == SelectSeq(devices, LAMBDA d : ~outdate(d))

\* max_len in set_trusted_devices
TrustedDevicesMaxLen == 1024 * 1024

\* the locals of an operation in progress; the record of a completed call
NoLocals ==
    [op |-> "none", arg |-> << >>, stack |-> << >>, devices |-> << >>,
     trusted_devices |-> << >>, enc |-> Text(""), ret |-> << >>, before |-> << >>,
     cached |-> FALSE, dropped |-> FALSE, old |-> << >>, seen |-> << >>, at |-> 0]

trustedVars == << family, optVars, extVars, LOCAL_CONFIG, USER_DEFAULT_CONFIG, file_local,
                 file_default >>

\* the operations whose record keeps the state they were called in
ComparedWithBefore == {"Config::set", "Config2::set", "Config::set_permanent_password"}

\* a call by thread t: control enters at label entry, and returns to the labels of stack;
\* the record of the call before it is dropped
Call(t, op, arg, entry, stack) ==
    /\ pc[t] = "idle"
    /\ pc' = [pc EXCEPT ![t] = entry]
    /\ loc' = [loc EXCEPT ![t] =
           [NoLocals EXCEPT !.op = op, !.arg = arg, !.stack = stack,
                            !.old = IF op \in ComparedWithBefore
                                    THEN << CONFIG, CONFIG2, TRUSTED_DEVICES, file_config,
                                            file_config2 >>
                                    ELSE << >>]]
    /\ last' = NoLocals
    /\ UNCHANGED << trustedVars, CONFIG, CONFIG2, TRUSTED_DEVICES, file_config, file_config2,
                    now, wlock >>

\* thread t leaves the function it is in with locals l: it continues at the label on
\* top of its stack, or the operation has completed
Return(t, l) ==
    IF Head(l.stack) = "done"
    THEN /\ pc' = [pc EXCEPT ![t] = "idle"]
         /\ loc' = [loc EXCEPT ![t] = NoLocals]
         /\ last' = [l EXCEPT !.stack = << >>, !.at = now]
    ELSE /\ pc' = [pc EXCEPT ![t] = Head(l.stack)]
         /\ loc' = [loc EXCEPT ![t] = [l EXCEPT !.stack = Tail(l.stack)]]
         /\ UNCHANGED last

\* ---- Config::get_trusted_devices ----
\* let (devices, synced) = TRUSTED_DEVICES.read().unwrap().clone(); if synced { return devices; }
gtd_read_cache(t) ==
    /\ pc[t] = "gtd_read_cache"
    /\ wlock["TRUSTED_DEVICES"] = 0
    /\ IF TRUSTED_DEVICES[2]
       THEN Return(t, [loc[t] EXCEPT !.ret = TRUSTED_DEVICES[1], !.cached = TRUE,
                                     !.seen = file_config2])
       ELSE /\ pc' = [pc EXCEPT ![t] = "gtd_read_config2"]
            /\ UNCHANGED << loc, last >>
    /\ UNCHANGED << trustedVars, CONFIG, CONFIG2, TRUSTED_DEVICES, file_config, file_config2,
                    now, wlock >>

\* CONFIG2.read().unwrap().trusted_devices.clone(), decrypt, parse, retain
gtd_read_config2(t) ==
    /\ pc[t] = "gtd_read_config2"
    /\ wlock["CONFIG2"] = 0
    /\ LET dec == decrypt_str_or_original(CONFIG2.trusted_devices, PASSWORD_ENC_VERSION)
           succ == dec[2]
           store == dec[3]
           parsed == from_str(dec[1])
           devices == RetainFresh(parsed)
           l == [loc[t] EXCEPT !.seen = file_config2]
       IN
       IF succ
       THEN IF store \/ Len(devices) # Len(parsed)
            THEN /\ pc' = [pc EXCEPT ![t] = "std_begin"]
                 /\ loc' = [loc EXCEPT ![t] =
                        [l EXCEPT !.devices = devices, !.dropped = Len(devices) # Len(parsed),
                                  !.trusted_devices = devices,
                                  !.stack = << "gtd_write_cache" >> \o @]]
                 /\ UNCHANGED last
            ELSE /\ pc' = [pc EXCEPT ![t] = "gtd_write_cache"]
                 /\ loc' = [loc EXCEPT ![t] = [l EXCEPT !.devices = devices]]
                 /\ UNCHANGED last
       ELSE Return(t, [l EXCEPT !.ret = << >>])
    /\ UNCHANGED << trustedVars, CONFIG, CONFIG2, TRUSTED_DEVICES, file_config, file_config2,
                    now, wlock >>

\* *TRUSTED_DEVICES.write().unwrap() = (devices.clone(), true); devices
gtd_write_cache(t) ==
    /\ pc[t] = "gtd_write_cache"
    /\ CanWrite("TRUSTED_DEVICES")
    /\ TRUSTED_DEVICES' = << loc[t].devices, TRUE >>
    /\ Return(t, [loc[t] EXCEPT !.ret = loc[t].devices])
    /\ UNCHANGED << trustedVars, CONFIG, CONFIG2, file_config, file_config2, now, wlock >>

\* ---- Config::set_trusted_devices ----
\* the length of the text is not checked
std_begin_NoLimit(t) ==
    /\ pc[t] = "std_begin"
    /\ LET trusted_devices == RetainFresh(loc[t].trusted_devices)
           devices == to_string(trusted_devices)
           max_len == TrustedDevicesMaxLen
       IN
       /\ pc' = [pc EXCEPT ![t] = "std_lock"]
       /\ loc' = [loc EXCEPT ![t] =
              [@ EXCEPT !.trusted_devices = trusted_devices,
                        !.enc = [devices EXCEPT !.ver = PASSWORD_ENC_VERSION]]]
       /\ UNCHANGED last
    /\ UNCHANGED << trustedVars, CONFIG, CONFIG2, TRUSTED_DEVICES, file_config, file_config2,
                    now, wlock >>

\* retain the fresh devices, serialize, refuse a text above max_len, encrypt; a refused
\* call records the state it leaves
std_begin(t) ==
    /\ pc[t] = "std_begin"
    /\ LET trusted_devices == RetainFresh(loc[t].trusted_devices)
           devices == to_string(trusted_devices)
           max_len == TrustedDevicesMaxLen
       IN
       IF StrLen(devices) > max_len
       THEN Return(t, [loc[t] EXCEPT !.old = << CONFIG, CONFIG2, TRUSTED_DEVICES, file_config,
                                               file_config2 >>])
       ELSE /\ pc' = [pc EXCEPT ![t] = "std_lock"]
            /\ loc' = [loc EXCEPT ![t] =
                   [@ EXCEPT !.trusted_devices = trusted_devices,
                             !.enc = encrypt_str_or_original(devices, PASSWORD_ENC_VERSION,
                                                             max_len)]]
            /\ UNCHANGED last
    /\ UNCHANGED << trustedVars, CONFIG, CONFIG2, TRUSTED_DEVICES, file_config, file_config2,
                    now, wlock >>

\* let mut config = CONFIG2.write().unwrap(); config.trusted_devices = devices;
std_lock(t) ==
    /\ pc[t] = "std_lock"
    /\ CanWrite("CONFIG2")
    /\ wlock' = [wlock EXCEPT !["CONFIG2"] = t]
    /\ CONFIG2' = [CONFIG2 EXCEPT !.trusted_devices = loc[t].enc]
    /\ pc' = [pc EXCEPT ![t] = "std_store"]
    /\ UNCHANGED << trustedVars, CONFIG, TRUSTED_DEVICES, file_config, file_config2, now,
                    loc, last >>

\* config.store();
std_store(t) ==
    /\ pc[t] = "std_store"
    /\ file_config2' = Config2_store(CONFIG2)
    /\ pc' = [pc EXCEPT ![t] = "std_cache"]
    /\ UNCHANGED << trustedVars, CONFIG, CONFIG2, TRUSTED_DEVICES, file_config, now, wlock,
                    loc, last >>

\* *TRUSTED_DEVICES.write().unwrap() = (trusted_devices, true); the guard of CONFIG2
\* is dropped at the end of the function
std_cache(t) ==
    /\ pc[t] = "std_cache"
    /\ CanWrite("TRUSTED_DEVICES")
    /\ TRUSTED_DEVICES' = << loc[t].trusted_devices, TRUE >>
    /\ wlock' = [wlock EXCEPT !["CONFIG2"] = 0]
    /\ Return(t, loc[t])
    /\ UNCHANGED << trustedVars, CONFIG, CONFIG2, file_config, file_config2, now >>

\* the entry with the hardware id of the new device is kept
atd_after_get_NoRetain(t) ==
    /\ pc[t] = "atd_after_get"
    /\ LET device == loc[t].arg
           devices == Append(loc[t].ret, device)
       IN
       /\ pc' = [pc EXCEPT ![t] = "std_begin"]
       /\ loc' = [loc EXCEPT ![t] = [@ EXCEPT !.before = loc[t].ret,
                                              !.trusted_devices = devices]]
    /\ UNCHANGED << trustedVars, CONFIG, CONFIG2, TRUSTED_DEVICES, file_config, file_config2,
                    now, wlock, last >>

\* ---- Config::add_trusted_device, after let mut devices = Self::get_trusted_devices() ----
atd_after_get(t) ==
    /\ pc[t] = "atd_after_get"
    /\ LET device == loc[t].arg
           devices == Append(SelectSeq(loc[t].ret, LAMBDA d : d.hwid # device.hwid), device)
       IN
       /\ pc' = [pc EXCEPT ![t] = "std_begin"]
       /\ loc' = [loc EXCEPT ![t] = [@ EXCEPT !.before = loc[t].ret,
                                              !.trusted_devices = devices]]
    /\ UNCHANGED << trustedVars, CONFIG, CONFIG2, TRUSTED_DEVICES, file_config, file_config2,
                    now, wlock, last >>

\* ---- Config::remove_trusted_devices, after the read of the list ----
rtd_after_get(t) ==
    /\ pc[t] = "rtd_after_get"
    /\ LET hwids == loc[t].arg
           devices == SelectSeq(loc[t].ret, LAMBDA d : d.hwid \notin hwids)
       IN
       /\ pc' = [pc EXCEPT ![t] = "std_begin"]
       /\ loc' = [loc EXCEPT ![t] = [@ EXCEPT !.before = loc[t].ret,
                                              !.trusted_devices = devices]]
    /\ UNCHANGED << trustedVars, CONFIG, CONFIG2, TRUSTED_DEVICES, file_config, file_config2,
                    now, wlock, last >>

\* ---- Config::set_permanent_password ----
\* if HARD_SETTINGS.get("password").map_or(false, |v| v == password) { return; }
spp_hard(t) ==
    /\ pc[t] = "spp_hard"
    /\ IF MapGet(HARD_SETTINGS, "password") = Some(loc[t].arg)
       THEN Return(t, loc[t])
       ELSE /\ pc' = [pc EXCEPT ![t] = "spp_lock"]
            /\ UNCHANGED << loc, last >>
    /\ UNCHANGED << trustedVars, CONFIG, CONFIG2, TRUSTED_DEVICES, file_config, file_config2,
                    now, wlock >>

\* let mut config = CONFIG.write().unwrap(); if password == config.password { return; }
\* config.password = password.into();
spp_lock(t) ==
    /\ pc[t] = "spp_lock"
    /\ CanWrite("CONFIG")
    /\ IF loc[t].arg = CONFIG.password
       THEN /\ Return(t, loc[t])
            /\ UNCHANGED << CONFIG, wlock >>
       ELSE /\ wlock' = [wlock EXCEPT !["CONFIG"] = t]
            /\ CONFIG' = [CONFIG EXCEPT !.password = loc[t].arg]
            /\ pc' = [pc EXCEPT ![t] = "spp_store"]
            /\ UNCHANGED << loc, last >>
    /\ UNCHANGED << trustedVars, CONFIG2, TRUSTED_DEVICES, file_config, file_config2, now >>

\* config.store(); Self::clear_trusted_devices();
spp_store(t) ==
    /\ pc[t] = "spp_store"
    /\ file_config' = Config_store(CONFIG)
    /\ pc' = [pc EXCEPT ![t] = "std_begin"]
    /\ loc' = [loc EXCEPT ![t] = [@ EXCEPT !.trusted_devices = << >>,
                                           !.stack = << "spp_unlock" >> \o @]]
    /\ UNCHANGED << trustedVars, CONFIG, CONFIG2, TRUSTED_DEVICES, file_config2, now, wlock,
                    last >>

\* the guard of CONFIG is dropped at the end of the function
spp_unlock(t) ==
    /\ pc[t] = "spp_unlock"
    /\ wlock' = [wlock EXCEPT !["CONFIG"] = 0]
    /\ Return(t, loc[t])
    /\ UNCHANGED << trustedVars, CONFIG, CONFIG2, TRUSTED_DEVICES, file_config, file_config2,
                    now >>

\* ---- Config::set ----
\* the record is replaced even when it equals the current one
cs_lock_NoCompare(t) ==
    /\ pc[t] = "cs_lock"
    /\ CanWrite("CONFIG")
    /\ wlock' = [wlock EXCEPT !["CONFIG"] = t]
    /\ CONFIG' = loc[t].arg
    /\ pc' = [pc EXCEPT ![t] = "cs_store"]
    /\ UNCHANGED << loc, last >>
    /\ UNCHANGED << trustedVars, CONFIG2, TRUSTED_DEVICES, file_config, file_config2, now >>

\* let mut lock = CONFIG.write().unwrap(); if *lock == cfg { return false; } *lock = cfg;
cs_lock(t) ==
    /\ pc[t] = "cs_lock"
    /\ CanWrite("CONFIG")
    /\ IF CONFIG = loc[t].arg
       THEN /\ Return(t, [loc[t] EXCEPT !.ret = FALSE])
            /\ UNCHANGED << CONFIG, wlock >>
       ELSE /\ wlock' = [wlock EXCEPT !["CONFIG"] = t]
            /\ CONFIG' = loc[t].arg
            /\ pc' = [pc EXCEPT ![t] = "cs_store"]
            /\ UNCHANGED << loc, last >>
    /\ UNCHANGED << trustedVars, CONFIG2, TRUSTED_DEVICES, file_config, file_config2, now >>

\* lock.store(); true
cs_store(t) ==
    /\ pc[t] = "cs_store"
    /\ file_config' = Config_store(CONFIG)
    /\ wlock' = [wlock EXCEPT !["CONFIG"] = 0]
    /\ Return(t, [loc[t] EXCEPT !.ret = TRUE])
    /\ UNCHANGED << trustedVars, CONFIG, CONFIG2, TRUSTED_DEVICES, file_config2, now >>

\* ---- Config2::set ----
c2s_lock(t) ==
    /\ pc[t] = "c2s_lock"
    /\ CanWrite("CONFIG2")
    /\ IF CONFIG2 = loc[t].arg
       THEN /\ Return(t, [loc[t] EXCEPT !.ret = FALSE])
            /\ UNCHANGED << CONFIG2, wlock >>
       ELSE /\ wlock' = [wlock EXCEPT !["CONFIG2"] = t]
            /\ CONFIG2' = loc[t].arg
            /\ pc' = [pc EXCEPT ![t] = "c2s_store"]
            /\ UNCHANGED << loc, last >>
    /\ UNCHANGED << trustedVars, CONFIG, TRUSTED_DEVICES, file_config, file_config2, now >>

c2s_store(t) ==
    /\ pc[t] = "c2s_store"
    /\ file_config2' = Config2_store(CONFIG2)
    /\ wlock' = [wlock EXCEPT !["CONFIG2"] = 0]
    /\ Return(t, [loc[t] EXCEPT !.ret = TRUE])
    /\ UNCHANGED << trustedVars, CONFIG, CONFIG2, TRUSTED_DEVICES, file_config, now >>

\* ---- Config::set_id ----
\* let mut config = CONFIG.write().unwrap(); if id == config.id { return; } config.id = id.into();
si_lock(t) ==
    /\ pc[t] = "si_lock"
    /\ CanWrite("CONFIG")
    /\ IF loc[t].arg = CONFIG.id
       THEN /\ Return(t, loc[t])
            /\ UNCHANGED << CONFIG, wlock >>
       ELSE /\ wlock' = [wlock EXCEPT !["CONFIG"] = t]
            /\ CONFIG' = [CONFIG EXCEPT !.id = loc[t].arg]
            /\ pc' = [pc EXCEPT ![t] = "si_store"]
            /\ UNCHANGED << loc, last >>
    /\ UNCHANGED << trustedVars, CONFIG2, TRUSTED_DEVICES, file_config, file_config2, now >>

\* config.store();
si_store(t) ==
    /\ pc[t] = "si_store"
    /\ file_config' = Config_store(CONFIG)
    /\ wlock' = [wlock EXCEPT !["CONFIG"] = 0]
    /\ Return(t, loc[t])
    /\ UNCHANGED << trustedVars, CONFIG, CONFIG2, TRUSTED_DEVICES, file_config2, now >>

\* ---- Config::get, Config2::get ----
\* CONFIG.read().unwrap().clone()
cg_read(t) ==
    /\ pc[t] = "cg_read"
    /\ wlock["CONFIG"] = 0
    /\ Return(t, [loc[t] EXCEPT !.ret = CONFIG, !.seen = file_config])
    /\ UNCHANGED << trustedVars, CONFIG, CONFIG2, TRUSTED_DEVICES, file_config, file_config2,
                    now, wlock >>

\* CONFIG2.read().unwrap().clone()
c2g_read(t) ==
    /\ pc[t] = "c2g_read"
    /\ wlock["CONFIG2"] = 0
    /\ Return(t, [loc[t] EXCEPT !.ret = CONFIG2, !.seen = file_config2])
    /\ UNCHANGED << trustedVars, CONFIG, CONFIG2, TRUSTED_DEVICES, file_config, file_config2,
                    now, wlock >>

\* ---- the calls a thread makes ----
get_trusted_devices(t) ==
    Call(t, "Config::get_trusted_devices", << >>, "gtd_read_cache", << "done" >>)

add_trusted_device(t, device) ==
    Call(t, "Config::add_trusted_device", device, "gtd_read_cache", << "atd_after_get", "done" >>)

remove_trusted_devices(t, hwids) ==
    Call(t, "Config::remove_trusted_devices", hwids, "gtd_read_cache",
         << "rtd_after_get", "done" >>)

\* Self::set_trusted_devices(Default::default())
clear_trusted_devices(t) ==
    Call(t, "Config::clear_trusted_devices", << >>, "std_begin", << "done" >>)

set_permanent_password(t, password) ==
    Call(t, "Config::set_permanent_password", password, "spp_hard", << "done" >>)

Config_set(t, cfg) == Call(t, "Config::set", cfg, "cs_lock", << "done" >>)

Config2_set(t, cfg) == Call(t, "Config2::set", cfg, "c2s_lock", << "done" >>)

set_id(t, id) == Call(t, "Config::set_id", id, "si_lock", << "done" >>)

Config_get(t) == Call(t, "Config::get", << >>, "cg_read", << "done" >>)

Config2_get(t) == Call(t, "Config2::get", << >>, "c2g_read", << "done" >>)

\* the steps of get_trusted_devices, set_trusted_devices and add_trusted_device
TrustedDevicesStep(t) ==
    \/ gtd_read_cache(t)
    \/ gtd_read_config2(t)
    \/ gtd_write_cache(t)
    \/ std_begin(t)
    \/ std_lock(t)
    \/ std_store(t)
    \/ std_cache(t)
    \/ atd_after_get(t)

\* the steps of set_id and Config::get
IdentityStep(t) ==
    \/ si_lock(t)
    \/ si_store(t)
    \/ cg_read(t)

\* the steps of the other operations
OtherStep(t) ==
    \/ rtd_after_get(t)
    \/ spp_hard(t)
    \/ spp_lock(t)
    \/ spp_store(t)
    \/ spp_unlock(t)
    \/ cs_lock(t)
    \/ cs_store(t)
    \/ c2s_lock(t)
    \/ c2s_store(t)
    \/ c2g_read(t)

\* ---- the clock ----
\* the clock advances in steps of TickDays, MaxTicks times; a call takes far less
\* than one step of it, so the clock moves between calls
TickDays == 45

MaxTicks == 3

Tick ==
    /\ \A t \in Threads : pc[t] = "idle"
    /\ now < MaxTicks * TickDays
    /\ now' = now + TickDays
    /\ UNCHANGED << trustedVars, CONFIG, CONFIG2, TRUSTED_DEVICES, file_config, file_config2,
                    wlock, pc, loc, last >>

\* ---- the values of a run ----
Device(hwid, time, name) == [hwid |-> hwid, time |-> time, name |-> name]

\* two devices trusted at the start of the clock, a later device with the hardware id
\* of the first, and a later device whose name alone fills the size limit
DeviceA == Device("h1", 0, "pc")
DeviceB == Device("h2", 0, "pc")
DeviceA2 == Device("h1", 2 * TickDays, "pc")
DeviceHuge == Device("h2", 2 * TickDays, "huge")

Devices == {DeviceA, DeviceB, DeviceA2, DeviceHuge}

Hwids == {"h1", "h2"}

Ids == {"i1", "i2"}

Passwords == {"", "p1"}

Pins == {"", "1234"}

\* the text set_trusted_devices writes for a list
StoredDevices(devs) ==
    encrypt_str_or_original(to_string(devs), PASSWORD_ENC_VERSION, TrustedDevicesMaxLen)

\* trusted_devices as read from <AppName>2.toml at start: absent, written by an earlier
\* run of the program, or edited by hand to a plaintext list
InitTrustedDevices ==
    {Text(""), StoredDevices(<< DeviceA >>), StoredDevices(<< DeviceA, DeviceB >>),
     to_string(<< DeviceA >>)}

\* the state after Config::load and Config2::load, the cache not yet synchronized
SERIAL == 3

CustomServers == {<< "c" >>, << "c", ":", "2" >>}

\* lists without a dotted entry, with one after a plain entry, with two
ServerLists == {<< "x" >>, << "x", ",", "a", ".", "b" >>,
                << "a", ".", "b", ",", "c", ".", "d" >>, << "," >>}

LatencyHosts == {<< >>, << "r" >>, << "r", ":", "3" >>}

Serials == {0, SERIAL, SERIAL + 1}

\* the network record as the setters and the latency probe have left it
InitNetworks ==
    IF family # "rendezvous" THEN {Config2_default}
    ELSE {[Config2_default EXCEPT !.options = options, !.rendezvous_server = host,
                                  !.serial = serial] :
            options \in {o \in UNION {[D -> CustomServers \cup ServerLists] :
                                      D \in SUBSET {"custom-rendezvous-server",
                                                    "rendezvous-servers"}} :
                            \A k \in DOMAIN o :
                               o[k] \in IF k = "rendezvous-servers" THEN ServerLists
                                        ELSE CustomServers},
            host \in LatencyHosts, serial \in Serials}

\* the sizes that the file may hold when it is loaded: none, a small one, a large one
InitLocals ==
    IF family # "size" THEN {LocalConfig_default}
    ELSE {[LocalConfig_default EXCEPT !.size = size] :
            size \in {<< 0, 0, 0, 0 >>, << 1, 1, 299, 800 >>, << 0, 1, 800, 300 >>}}

\* the display defaults that the user has stored: none, in range, out of range, no number
InitDefaults ==
    IF family # "decode" THEN {[options |-> EmptyMap]}
    ELSE {[options |-> o] :
            o \in {m \in PartialMaps({OPTION_TRACKPAD_SPEED, OPTION_CUSTOM_IMAGE_QUALITY},
                                     {"9", "200", "x"}) :
                     OPTION_CUSTOM_IMAGE_QUALITY \in DOMAIN m
                        => m[OPTION_CUSTOM_IMAGE_QUALITY] # "9"}}

InitLoaded(entities, threads, ids, passwords, hard, lists) ==
    /\ family \in entities
    /\ OVERWRITE_SETTINGS = EmptyMap
    /\ DEFAULT_SETTINGS = EmptyMap
    /\ OVERWRITE_LOCAL_SETTINGS = EmptyMap
    /\ DEFAULT_LOCAL_SETTINGS = EmptyMap
    /\ OVERWRITE_DISPLAY_SETTINGS = EmptyMap
    /\ DEFAULT_DISPLAY_SETTINGS = EmptyMap
    /\ HARD_SETTINGS \in hard
    /\ \E id \in ids, password \in passwords :
         CONFIG = [Config_default EXCEPT
                     !.id = id, !.password = password,
                     !.enc_id = encrypt_str_or_original(Text(id), PASSWORD_ENC_VERSION,
                                                        ENCRYPT_MAX_LEN)]
    /\ file_config = Config_store(CONFIG)
    /\ \E td \in lists, network \in InitNetworks :
         CONFIG2 = [network EXCEPT !.trusted_devices = td]
    /\ file_config2 = Config2_store(CONFIG2)
    /\ ExtInit
    /\ LOCAL_CONFIG \in InitLocals
    /\ file_local = LocalConfig_store(LOCAL_CONFIG)
    /\ file_default \in InitDefaults
    /\ USER_DEFAULT_CONFIG = UserDefaultConfig_load
    /\ TRUSTED_DEVICES = << << >>, FALSE >>
    /\ now = 0
    /\ wlock = [l \in Locks |-> 0]
    /\ pc = [t \in threads |-> "idle"]
    /\ loc = [t \in threads |-> NoLocals]
    /\ last = NoLocals

\* one thread calls the operations one after the other, and the clock advances
InitSeq ==
    InitLoaded({"all"}, {1}, {"i1"}, {""}, {EmptyMap, [k \in {"password"} |-> "p1"]},
               InitTrustedDevices)

NextSeq ==
    \/ TrustedDevicesStep(1)
    \/ IdentityStep(1)
    \/ OtherStep(1)
    \/ Tick
    \/ get_trusted_devices(1)
    \/ \E device \in Devices : add_trusted_device(1, device)
    \/ \E hwids \in SUBSET Hwids : remove_trusted_devices(1, hwids)
    \/ clear_trusted_devices(1)
    \/ \E password \in Passwords : set_permanent_password(1, password)
    \/ \E id \in Ids, password \in Passwords :
         Config_set(1, [CONFIG EXCEPT !.id = id, !.password = password])
    \/ \E pin \in Pins, td \in {CONFIG2.trusted_devices, Text("")} :
         Config2_set(1, [CONFIG2 EXCEPT !.unlock_pin = pin, !.trusted_devices = td])
    \/ \E id \in Ids : set_id(1, id)
    \/ Config_get(1)
    \/ Config2_get(1)

SpecSeq == InitSeq /\ [][NextSeq]_vars

\* two threads call the operations of one entity at the same time; the identity and
\* the trusted devices share no state in these operations
InitConc ==
    InitLoaded({"identity", "devices"}, {1, 2}, {"i1"}, {""}, {EmptyMap},
               {Text(""), StoredDevices(<< DeviceA >>)})

NextConc ==
    \E t \in Threads :
       \/ TrustedDevicesStep(t)
       \/ IdentityStep(t)
       \/ family = "devices" /\ get_trusted_devices(t)
       \/ family = "devices" /\ \E device \in {DeviceA, DeviceB} : add_trusted_device(t, device)
       \/ family = "devices" /\ clear_trusted_devices(t)
       \/ family = "identity" /\ \E id \in Ids : set_id(t, id)
       \/ family = "identity" /\ Config_get(t)

SpecConc == InitConc /\ [][NextConc]_vars

\* ---- what a caller observes ----
\* no call is in progress
AllIdle == \A t \in Threads : pc[t] = "idle"

\* the list get_trusted_devices() returns when it is called in this state
TrustedDevicesNow ==
    IF TRUSTED_DEVICES[2] THEN TRUSTED_DEVICES[1]
    ELSE LET dec == decrypt_str_or_original(CONFIG2.trusted_devices, PASSWORD_ENC_VERSION)
         IN IF dec[2] THEN RetainFresh(from_str(dec[1])) ELSE << >>

\* the list a load of the network file f yields
FileDevices(f) ==
    LET dec == decrypt_str_or_original(f.trusted_devices, PASSWORD_ENC_VERSION)
    IN IF dec[2] THEN from_str(dec[1]) ELSE << >>

\* the id a load of the identity file f yields
FileId(f) == decrypt_str_or_original(f.enc_id, PASSWORD_ENC_VERSION)[1].s

(***************************************************************************)
(* Identity and network record across store and load                       *)
(***************************************************************************)
\* Config::load on the record read from <AppName>.toml: the record for CONFIG and
\* whether it is stored; gen is the outcome of Config::gen_id
Config_load(file, gen) ==
    LET password == decrypt_str_or_original(file.password, PASSWORD_ENC_VERSION)
        id == decrypt_str_or_original(file.enc_id, PASSWORD_ENC_VERSION)
        encrypted == id[2]
        plain_id == /\ ~encrypted
                    /\ file.id # ""
                    /\ file.enc_id = Text("")
                    /\ ~decrypt_str_or_original(Text(file.id), PASSWORD_ENC_VERSION)[2]
        id_valid == encrypted \/ plain_id
        config1 == [file EXCEPT !.password = password[1].s,
                                !.id = IF encrypted THEN id[1].s ELSE file.id]
        config == IF ~id_valid /\ gen # None THEN [config1 EXCEPT !.id = gen[1]] ELSE config1
        store == \/ password[3]
                 \/ encrypted /\ id[3]
                 \/ plain_id
                 \/ ~id_valid /\ gen # None
    IN [config |-> config, store |-> store, id_valid |-> id_valid]

\* Config2::load on the record read from <AppName>2.toml
Config2_load(file) ==
    LET unlock_pin == decrypt_str_or_original(file.unlock_pin, PASSWORD_ENC_VERSION)
        password == IF file.socks = None THEN << Text(""), FALSE, FALSE >>
                    ELSE decrypt_str_or_original(file.socks[1].password, PASSWORD_ENC_VERSION)
    IN [config |-> [file EXCEPT
                      !.socks = IF file.socks = None THEN None
                                ELSE Some([password |-> password[1].s]),
                      !.unlock_pin = unlock_pin[1].s],
        store |-> password[3] \/ unlock_pin[3]]

\* the process starts again: CONFIG and CONFIG2 are loaded from the files, which are
\* stored where the loads ask for it, and the cache is not synchronized
Restart(gen) ==
    /\ \A t \in Threads : pc[t] = "idle"
    /\ LET c == Config_load(file_config, gen)
           c2 == Config2_load(file_config2)
       IN
       /\ CONFIG' = c.config
       /\ file_config' = IF c.store THEN Config_store(c.config) ELSE file_config
       /\ CONFIG2' = c2.config
       /\ file_config2' = IF c2.store THEN Config2_store(c2.config) ELSE file_config2
    /\ TRUSTED_DEVICES' = << << >>, FALSE >>
    /\ last' = [NoLocals EXCEPT !.op = "restart",
                                !.old = << CONFIG, CONFIG2, TRUSTED_DEVICES, file_config,
                                           file_config2 >>]
    /\ UNCHANGED << trustedVars, now, wlock, pc, loc >>

\* ---- Config::update_id ----
\* let id = Self::get_id(): an empty id is replaced by a generated one, with set_id
ui_get(t) ==
    /\ pc[t] = "ui_get"
    /\ wlock["CONFIG"] = 0
    /\ LET gen == loc[t].arg[2] IN
       IF CONFIG.id = "" /\ gen # None
       THEN /\ pc' = [pc EXCEPT ![t] = "si_lock"]
            /\ loc' = [loc EXCEPT ![t] = [@ EXCEPT !.ret = loc[t].arg[1], !.arg = gen[1],
                                                   !.stack = << "ui_set" >> \o @]]
       ELSE /\ pc' = [pc EXCEPT ![t] = "ui_set"]
            /\ loc' = [loc EXCEPT ![t] = [@ EXCEPT !.ret = loc[t].arg[1]]]
    /\ UNCHANGED << trustedVars, CONFIG, CONFIG2, TRUSTED_DEVICES, file_config, file_config2,
                    now, wlock, last >>

\* Config::set_id(&new_id)
ui_set(t) ==
    /\ pc[t] = "ui_set"
    /\ pc' = [pc EXCEPT ![t] = "si_lock"]
    /\ loc' = [loc EXCEPT ![t] = [@ EXCEPT !.arg = loc[t].ret]]
    /\ UNCHANGED << trustedVars, CONFIG, CONFIG2, TRUSTED_DEVICES, file_config, file_config2,
                    now, wlock, last >>

\* new_id is the number drawn, gen the outcome of Config::gen_id
update_id(t, new_id, gen) ==
    Call(t, "Config::update_id", << new_id, gen >>, "ui_get", << "done" >>)

\* ---- PeerConfig::store, PeerConfig::load ----
peerOther == << family, optVars, staticVars, statusVars, file_book, CONFIG, CONFIG2, LOCAL_CONFIG, USER_DEFAULT_CONFIG,
               TRUSTED_DEVICES, file_config, file_config2, file_local, file_default,
               keyVars, ONLINE, now, wlock, pc, loc >>

\* ok is the outcome of store_path
PeerConfig_store(id, cfg, ok) ==
    /\ family \in {"peer", "migrate_peer"}
    /\ wlock["CONFIG"] = 0
    /\ file_peer' = IF ok THEN [file_peer EXCEPT ![id] = Some(PeerConfig_store_(cfg))]
                         ELSE file_peer
    /\ NEW_STORED_PEER_CONFIG' = NEW_STORED_PEER_CONFIG \cup {id}
    /\ last' = [NoLocals EXCEPT !.op = "PeerConfig::store", !.arg = << id, cfg, ok >>,
                                !.old = file_peer[id]]
    /\ UNCHANGED peerOther

\* read_ok is the outcome of confy::load_path on a file that exists, ok the outcome of
\* store_path
PeerConfig_load(id, read_ok, ok) ==
    /\ family \in {"peer", "migrate_peer"}
    /\ wlock["CONFIG"] = 0
    /\ LET file == file_peer[id]
           loaded == IF file = NoPeerFile \/ ~read_ok
                     THEN [config |-> PeerConfig_default, store |-> FALSE]
                     ELSE PeerConfig_load_(file[1])
       IN
       /\ file_peer' = IF loaded.store /\ ok
                       THEN [file_peer EXCEPT ![id] = Some(PeerConfig_store_(loaded.config))]
                       ELSE file_peer
       /\ NEW_STORED_PEER_CONFIG' = IF loaded.store THEN NEW_STORED_PEER_CONFIG \cup {id}
                                                    ELSE NEW_STORED_PEER_CONFIG
       /\ last' = [NoLocals EXCEPT !.op = "PeerConfig::load", !.arg = << id, read_ok, ok >>,
                                   !.old = file, !.ret = loaded.config]
    /\ UNCHANGED peerOther

\* an id and a password above ENCRYPT_MAX_LEN bytes
LongId == "aaaaaaaaaaaaaaaaaaaaaaaaaaaaaaaaaaaaaaaaaaaaaaaaaaaaaaaaaaaaaaaaaaaaaaaaaaaaaaaaaaaaaaaaaaaaaaaaaaaaaaaaaaaaaaaaaaaaaaaaaaaaaaaaa"

LongPassword == "ppppppppppppppppppppppppppppppppppppppppppppppppppppppppppppppppppppppppppppppppppppppppppppppppppppppppppppppppppppppppppppppppp"

StoreIds == {"i1", "i2", LongId}

StorePasswords == {"", "p1", LongPassword}

\* the peer records a caller stores
PeerValues ==
    [password : StorePasswords, platform : {"", "Linux"},
     options : PartialMaps({"os-password", "view-only"}, {"p1", LongPassword})]

\* one thread changes the identity and the network record, or the trusted devices, or
\* the peers, and the process starts again
InitStore ==
    InitLoaded({"store", "devices", "peer"}, {1}, {"i1"}, {""}, {EmptyMap},
               {Text(""), to_string(<< DeviceA >>)})

NextStore ==
    \/ IdentityStep(1)
    \/ TrustedDevicesStep(1)
    \/ cs_lock(1)
    \/ cs_store(1)
    \/ c2s_lock(1)
    \/ c2s_store(1)
    \/ ui_get(1)
    \/ ui_set(1)
    \/ family = "store" /\ \E id \in StoreIds : set_id(1, id)
    \/ family = "store" /\ \E gen \in {None, Some("i1")} : update_id(1, "i2", gen)
    \/ family = "store" /\ \E id \in StoreIds \cup {""}, password \in StorePasswords :
         Config_set(1, [CONFIG EXCEPT !.id = id, !.password = password])
    \/ family = "store"
         /\ \E pin \in StorePasswords,
               socks \in {None} \cup {Some([password |-> p]) : p \in StorePasswords} :
              Config2_set(1, [CONFIG2 EXCEPT !.unlock_pin = pin, !.socks = socks])
    \/ family = "store" /\ Config_get(1)
    \/ family = "devices" /\ get_trusted_devices(1)
    \/ family = "devices" /\ \E device \in {DeviceA, DeviceB} : add_trusted_device(1, device)
    \/ family = "devices" /\ clear_trusted_devices(1)
    \/ family = "devices"
         /\ \E pin \in Pins, td \in {CONFIG2.trusted_devices, to_string(<< DeviceB >>)} :
              Config2_set(1, [CONFIG2 EXCEPT !.unlock_pin = pin, !.trusted_devices = td])
    \/ family \in {"store", "devices"} /\ \E gen \in {None, Some("i1")} : Restart(gen)
    \/ \E id \in PeerIds, cfg \in PeerValues, ok \in BOOLEAN : PeerConfig_store(id, cfg, ok)
    \/ \E id \in PeerIds, read_ok \in BOOLEAN, ok \in BOOLEAN : PeerConfig_load(id, read_ok, ok)

SpecStore == InitStore /\ [][NextStore]_vars

(***************************************************************************)
(* The signing key pair: Config::get_key_pair                              *)
(***************************************************************************)
keysOther == << family, optVars, staticVars, statusVars, file_book, file_peer, NEW_STORED_PEER_CONFIG, ONLINE, CONFIG2,
               LOCAL_CONFIG, USER_DEFAULT_CONFIG, TRUSTED_DEVICES, file_config2, file_local,
               file_default, now, wlock >>

\* the calls of get_key_pair in a run
MaxCalls == 3

\* the mutex is not waited for
gkp_lock_NoMutex(t) ==
    /\ pc[t] = "gkp_lock"
    /\ KEY_PAIR' = [KEY_PAIR EXCEPT !.lock = t]
    /\ pc' = [pc EXCEPT ![t] = "gkp_cached"]
    /\ UNCHANGED << keysOther, CONFIG, file_config, spawned, observed, loc, last >>

\* let mut lock = KEY_PAIR.lock().unwrap()
gkp_lock(t) ==
    /\ pc[t] = "gkp_lock"
    /\ KEY_PAIR.lock = 0
    /\ KEY_PAIR' = [KEY_PAIR EXCEPT !.lock = t]
    /\ pc' = [pc EXCEPT ![t] = "gkp_cached"]
    /\ UNCHANGED << keysOther, CONFIG, file_config, spawned, observed, loc, last >>

\* if let Some(p) = lock.as_ref() { return p.clone(); }
gkp_cached(t) ==
    /\ pc[t] = "gkp_cached"
    /\ IF KEY_PAIR.slot # None
       THEN /\ KEY_PAIR' = [KEY_PAIR EXCEPT !.lock = 0]
            /\ observed' = [observed EXCEPT !.returned = Append(@, KEY_PAIR.slot[1])]
            /\ Return(t, [loc[t] EXCEPT !.ret = KEY_PAIR.slot[1]])
       ELSE /\ pc' = [pc EXCEPT ![t] = "gkp_load"]
            /\ UNCHANGED << KEY_PAIR, observed, loc, last >>
    /\ UNCHANGED << keysOther, CONFIG, file_config, spawned >>

\* Config::load_ reads the file; an empty key pair is replaced by a generated one, which a
\* spawned thread is to store
gkp_load(t) ==
    /\ pc[t] = "gkp_load"
    /\ IF file_config.key_pair = 0
       THEN LET key_pair == observed.gen_keypair + 1 IN
            /\ observed' = [observed EXCEPT !.gen_keypair = key_pair]
            /\ spawned' = spawned \cup {key_pair}
            /\ loc' = [loc EXCEPT ![t] = [@ EXCEPT !.ret = key_pair]]
       ELSE /\ loc' = [loc EXCEPT ![t] = [@ EXCEPT !.ret = file_config.key_pair]]
            /\ UNCHANGED << observed, spawned >>
    /\ pc' = [pc EXCEPT ![t] = "gkp_store"]
    /\ UNCHANGED << keysOther, CONFIG, file_config, KEY_PAIR, last >>

\* *lock = Some(config.key_pair.clone()); the guard is dropped on return
gkp_store(t) ==
    /\ pc[t] = "gkp_store"
    /\ KEY_PAIR' = [lock |-> 0, slot |-> Some(loc[t].ret)]
    /\ observed' = [observed EXCEPT !.returned = Append(@, loc[t].ret)]
    /\ Return(t, loc[t])
    /\ UNCHANGED << keysOther, CONFIG, file_config, spawned >>

\* the spawned thread changes the record in memory and does not store it
spawned_store_NoStore(key_pair) ==
    /\ key_pair \in spawned
    /\ CanWrite("CONFIG")
    /\ CONFIG' = [CONFIG EXCEPT !.key_pair = key_pair]
    /\ spawned' = spawned \ {key_pair}
    /\ UNCHANGED << keysOther, file_config, KEY_PAIR, observed, pc, loc, last >>

\* the spawned thread: CONFIG.write(), config.key_pair = key_pair, config.store()
spawned_store(key_pair) ==
    /\ key_pair \in spawned
    /\ CanWrite("CONFIG")
    /\ CONFIG' = [CONFIG EXCEPT !.key_pair = key_pair]
    /\ file_config' = Config_store(CONFIG')
    /\ spawned' = spawned \ {key_pair}
    /\ UNCHANGED << keysOther, KEY_PAIR, observed, pc, loc, last >>

get_key_pair(t) ==
    /\ Len(observed.returned) + Cardinality({u \in Threads : loc[u].op = "Config::get_key_pair"})
         < MaxCalls
    /\ Call(t, "Config::get_key_pair", << >>, "gkp_lock", << "done" >>)

\* the key pair an earlier run left in the file
StoredKeyPair == 9

\* two threads ask for the key pair while the identity is replaced
InitKeys == InitLoaded({"keys"}, {1, 2}, {"i1"}, {""}, {EmptyMap}, {Text("")})

NextKeys ==
    \/ \E t \in Threads :
         \/ gkp_lock(t)
         \/ gkp_cached(t)
         \/ gkp_load(t)
         \/ gkp_store(t)
         \/ cs_lock(t)
         \/ cs_store(t)
         \/ get_key_pair(t)
         \/ \E key_pair \in {0, StoredKeyPair} :
              Config_set(t, [CONFIG EXCEPT !.key_pair = key_pair])
    \/ \E key_pair \in spawned : spawned_store(key_pair)

SpecKeys == InitKeys /\ [][NextKeys]_vars

\* fair scheduling: a thread that holds the write guard of CONFIG goes on to store and
\* drop it, and the spawned thread gets the guard when it is free again and again
SpecKeysFair ==
    /\ SpecKeys
    /\ \A t \in {1, 2} : WF_vars(cs_store(t))
    /\ \A key_pair \in 1 .. MaxCalls : SF_vars(spawned_store(key_pair))

(***************************************************************************)
(* Peer file names.  A name is a sequence of characters; the directory     *)
(* peers/ maps the path of a file below it, a sequence of names, to the    *)
(* record in the file.                                                     *)
(***************************************************************************)
\* the bytes of the characters that occur in the ids of a run
Ascii(c) ==
    CASE c = "a" -> 97 [] c = "b" -> 98 [] c = "c" -> 99 [] c = "e" -> 101 [] c = "s" -> 115
      [] c = "x" -> 120 [] c = "Q" -> 81 [] c = "Y" -> 89 [] c = "4" -> 52 [] c = "6" -> 54
      [] c = "_" -> 95 [] c = "." -> 46 [] c = "/" -> 47 [] c = ":" -> 58 [] c = "=" -> 61
      [] c = "?" -> 63

IdChars == {"a", "b", "c", "e", "s", "x", "Q", "Y", "4", "6", "_", ".", "/", ":", "=", "?"}

\* String::from_utf8_lossy on one byte: a byte outside the ids' characters is shown as one
\* other character
Chr(n) == IF \E c \in IdChars : Ascii(c) = n THEN CHOOSE c \in IdChars : Ascii(c) = n
          ELSE "~"

\* the alphabet of base64::Variant::Original
B64 == << "A", "B", "C", "D", "E", "F", "G", "H", "I", "J", "K", "L", "M", "N", "O", "P",
       "Q", "R", "S", "T", "U", "V", "W", "X", "Y", "Z", "a", "b", "c", "d", "e", "f",
       "g", "h", "i", "j", "k", "l", "m", "n", "o", "p", "q", "r", "s", "t", "u", "v",
       "w", "x", "y", "z", "0", "1", "2", "3", "4", "5", "6", "7", "8", "9", "+", "/" >>

RECURSIVE base64_encode(_)
\* base64::encode(id, base64::Variant::Original) on the bytes b
base64_encode(b) ==
    IF b = << >> THEN << >>
    ELSE IF Len(b) = 1
    THEN << B64[b[1] \div 4 + 1], B64[(b[1] % 4) * 16 + 1], "=", "=" >>
    ELSE IF Len(b) = 2
    THEN << B64[b[1] \div 4 + 1], B64[(b[1] % 4) * 16 + b[2] \div 16 + 1],
            B64[(b[2] % 16) * 4 + 1], "=" >>
    ELSE << B64[b[1] \div 4 + 1], B64[(b[1] % 4) * 16 + b[2] \div 16 + 1],
            B64[(b[2] % 16) * 4 + b[3] \div 64 + 1], B64[(b[3] % 64) + 1] >>
         \o base64_encode(SubSeq(b, 4, Len(b)))

RECURSIVE base64_decode(_)
\* base64::decode(.., base64::Variant::Original): the bytes, or ok = FALSE for a text
\* that is not padded base-64
base64_decode(t) ==
    LET I(c) == (CHOOSE i \in DOMAIN B64 : B64[i] = c) - 1
        In(c) == \E i \in DOMAIN B64 : B64[i] = c
        Failed == [ok |-> FALSE, bytes |-> << >>]
    IN
    IF t = << >> THEN [ok |-> TRUE, bytes |-> << >>]
    ELSE IF Len(t) < 4 \/ ~In(t[1]) \/ ~In(t[2]) THEN Failed
    ELSE IF Len(t) = 4 /\ t[3] = "=" /\ t[4] = "="
    THEN [ok |-> TRUE, bytes |-> << I(t[1]) * 4 + I(t[2]) \div 16 >>]
    ELSE IF ~In(t[3]) THEN Failed
    ELSE IF Len(t) = 4 /\ t[4] = "="
    THEN [ok |-> TRUE, bytes |-> << I(t[1]) * 4 + I(t[2]) \div 16,
                                    (I(t[2]) % 16) * 16 + I(t[3]) \div 4 >>]
    ELSE IF ~In(t[4]) THEN Failed
    ELSE LET rest == base64_decode(SubSeq(t, 5, Len(t))) IN
         IF ~rest.ok THEN Failed
         ELSE [ok |-> TRUE, bytes |-> << I(t[1]) * 4 + I(t[2]) \div 16,
                                         (I(t[2]) % 16) * 16 + I(t[3]) \div 4,
                                         (I(t[3]) % 4) * 64 + I(t[4]) >> \o rest.bytes]

\* Path::file_stem and Path::extension of a file name: split at the last dot, unless the
\* name has none or only starts with one
file_stem(name) ==
    LET dots == {i \in DOMAIN name : name[i] = "."}
        last_dot == IF dots = {} THEN 0 ELSE CHOOSE i \in dots : \A j \in dots : j <= i
    IN IF last_dot <= 1 THEN [stem |-> name, extension |-> None]
       ELSE [stem |-> SubSeq(name, 1, last_dot - 1),
             extension |-> Some(SubSeq(name, last_dot + 1, Len(name)))]

Toml == << "t", "o", "m", "l" >>

\* Config::with_extension on a file name
Config_with_extension(name) ==
    LET p == file_stem(name) IN
    IF p.extension # None THEN p.stem \o << "." >> \o p.extension[1] \o << "." >> \o Toml
    ELSE p.stem \o << "." >> \o Toml

RECURSIVE components(_)
\* the names of a relative path: the text between the separators
components(t) ==
    LET slashes == {i \in DOMAIN t : t[i] = "/"} IN
    IF t = << >> THEN << >>
    ELSE IF slashes = {} THEN << t >>
    ELSE LET i == CHOOSE i \in slashes : \A j \in slashes : i <= j IN
         (IF i = 1 THEN << >> ELSE << SubSeq(t, 1, i - 1) >>)
         \o components(SubSeq(t, i + 1, Len(t)))

Base64Prefix == << "b", "a", "s", "e", "6", "4", "_" >>

ForbiddenChars == {"<", ">", ":", "/", "\\", "|", "?", "*"}

\* PeerConfig::path(id), below peers/
PeerConfig_path(id) ==
    LET id_encoded == IF \E i \in DOMAIN id : id[i] \in ForbiddenChars
                      THEN Base64Prefix
                           \o base64_encode([i \in DOMAIN id |-> Ascii(id[i])])
                      ELSE id
        path == components(id_encoded)
    IN [i \in DOMAIN path |-> IF i = Len(path) THEN Config_with_extension(path[i])
                                               ELSE path[i]]

\* the id get_vec_id_modified_time_path makes of a file name
id_decoded_string(name) ==
    LET id == file_stem(name).stem IN
    IF Len(id) > 7 /\ SubSeq(id, 1, 7) = Base64Prefix
    THEN LET id_decoded == base64_decode(SubSeq(id, 8, Len(id))).bytes
         IN [i \in DOMAIN id_decoded |-> Chr(id_decoded[i])]
    ELSE id

\* PeerConfig::store(id) of a record cfg: the file at PeerConfig::path(id) is written
path_store(id, cfg) ==
    /\ family \in {"path", "listed"}
    /\ LET path == PeerConfig_path(id)
           file == PeerConfig_store_(cfg)
       IN file_peer' = [p \in DOMAIN file_peer \cup {path} |->
                          IF p = path THEN file ELSE file_peer[p]]
    /\ NEW_STORED_PEER_CONFIG' = NEW_STORED_PEER_CONFIG \cup {id}
    /\ last' = [NoLocals EXCEPT !.op = "PeerConfig::store", !.arg = << id, cfg >>]
    /\ UNCHANGED peerOther

\* PeerConfig::remove(id)
path_remove(id) ==
    /\ family \in {"path", "listed"}
    /\ file_peer' = [p \in DOMAIN file_peer \ {PeerConfig_path(id)} |-> file_peer[p]]
    /\ last' = [NoLocals EXCEPT !.op = "PeerConfig::remove", !.arg = id]
    /\ UNCHANGED << peerOther, NEW_STORED_PEER_CONFIG >>

\* PeerConfig::get_vec_id_modified_time_path(&None): the files directly below peers/ with
\* the extension toml, each with the id made of its name; the modification times, and
\* with them the order of the result, are left open
vec_id_modified_time_path ==
    {<< id_decoded_string(p[1]), p >> :
       p \in {q \in DOMAIN file_peer : Len(q) = 1 /\ file_stem(q[1]).extension = Some(Toml)}}

get_vec_id_modified_time_path ==
    /\ family \in {"path", "listed"}
    /\ last' = [NoLocals EXCEPT
                  !.op = "PeerConfig::get_vec_id_modified_time_path",
                  !.ret = vec_id_modified_time_path]
    /\ UNCHANGED << peerOther, file_peer, NEW_STORED_PEER_CONFIG >>

\* plain ids, ids with forbidden characters, ids that begin with base64_
PathIds ==
    {<< "a", "b" >>, << "a", ".", "b" >>, << "a", "/", "b", ":", "c" >>, << "a", "b", "?" >>, Base64Prefix, Base64Prefix \o << "x" >>,
     Base64Prefix \o << "Y", "Q", "=", "=" >>}

InitPath == InitLoaded({"path"}, {1}, {"i1"}, {""}, {EmptyMap}, {Text("")})

NextPath ==
    \/ \E id \in PathIds : path_store(id, PeerConfig_default)
    \/ \E id \in PathIds : path_remove(id)
    \/ get_vec_id_modified_time_path

SpecPath == InitPath /\ [][NextPath]_vars

(***************************************************************************)
(* PeerConfig::store and PeerConfig::remove on ids of which one is the     *)
(* file name that PeerConfig::path makes of another.                       *)
(***************************************************************************)
\* a plain id, an id with a forbidden character, the text base64_ followed by the
\* base64 of that id, and another id with a forbidden character
EncodedIds ==
    {<< "a", "b" >>, << "a", "/", "b" >>, Base64Prefix \o << "Y", "S", "9", "i" >>,
     << "a", "b", "?" >>}

StoredPeerConfigs == {PeerConfig_default, [PeerConfig_default EXCEPT !.platform = "Linux"]}

NextEncoded ==
    \/ \E id \in EncodedIds, cfg \in StoredPeerConfigs : path_store(id, cfg)
    \/ \E id \in EncodedIds : path_remove(id)

SpecEncoded == InitPath /\ [][NextEncoded]_vars

(***************************************************************************)
(* PeerConfig::batch_peers.  The peers of these runs are numbered; the     *)
(* listing `all` names them in the order of their numbers.                 *)
(***************************************************************************)
BATCH_LOADING_COUNT == 100

Min(a, b) == IF a < b THEN a ELSE b

\* the listing of the peers found at the start
AllPeers == [i \in 1 .. Cardinality(DOMAIN file_peer) |-> i]

\* PeerConfig::load(&id) on the files: the record, and whether the file is stored again
BatchLoad(id) ==
    IF file_peer[id] = NoPeerFile THEN [config |-> PeerConfig_default, store |-> FALSE]
    ELSE PeerConfig_load_(file_peer[id][1])

\* the end of a batch is from + 1
batch_to_OneByOne(all, from, to) ==
    IF to # None THEN Min(to[1], Len(all)) ELSE Min(from + 1, Len(all))

\* let to = match to { Some(to) => to.min(all.len()), None => .. }
batch_to(all, from, to) ==
    IF to # None THEN Min(to[1], Len(all)) ELSE Min(from + BATCH_LOADING_COUNT, Len(all))

\* PeerConfig::batch_peers(all, from, to); chain says that the caller goes through `all`
\* from 0, feeding each returned index back
batch_peers(all, from, to, chain) ==
    /\ family \in {"batch", "chain"}
    /\ wlock["CONFIG"] = 0
    /\ \E to2 \in {batch_to(all, from, to)} :
       \E loaded \in {IF from >= Len(all) \/ to2 <= from THEN << >>
                      ELSE SubSeq(all, from + 1, to2)} :
       \E c \in {[id \in {loaded[i] : i \in DOMAIN loaded} |-> BatchLoad(id)]} :
         /\ file_peer' = [id \in DOMAIN file_peer |->
                            IF id \notin DOMAIN c THEN file_peer[id]
                            ELSE IF c[id].config.platform = "" THEN NoPeerFile
                            ELSE IF c[id].store THEN Some(PeerConfig_store_(c[id].config))
                            ELSE file_peer[id]]
         /\ NEW_STORED_PEER_CONFIG' =
              NEW_STORED_PEER_CONFIG \cup {id \in DOMAIN c : c[id].store}
         /\ last' = [NoLocals EXCEPT
                       !.op = "PeerConfig::batch_peers", !.arg = << all, from, to, chain >>,
                       !.before = loaded,
                       !.ret = << SelectSeq(loaded, LAMBDA id : c[id].config.platform # ""),
                                  IF from >= Len(all) THEN 0
                                  ELSE IF to2 <= from THEN from ELSE to2 >>,
                       !.seen = IF chain /\ last.op = "PeerConfig::batch_peers"
                                THEN last.seen \o loaded ELSE loaded]
    /\ UNCHANGED peerOther

\* a call with any index and any end
batch_any(from, to) ==
    /\ family = "batch"
    /\ \E all \in {AllPeers} : batch_peers(all, from, to, FALSE)

\* the first call of a caller that goes through the listing
batch_first ==
    /\ family = "chain"
    /\ last.op = "none"
    /\ \E all \in {AllPeers} : batch_peers(all, 0, None, TRUE)

\* the caller feeds the returned index back until it is the length of the listing
batch_next ==
    /\ family = "chain"
    /\ last.op = "PeerConfig::batch_peers"
    /\ last.ret[2] < Len(last.arg[1])
    /\ \E all \in {last.arg[1]} : batch_peers(all, last.ret[2], None, TRUE)

InitBatch == InitLoaded({"batch", "chain"}, {1}, {"i1"}, {""}, {EmptyMap}, {Text("")})

NextBatch ==
    \/ \E from \in {0, 1, 100, 200, Len(AllPeers), Len(AllPeers) + 1} :
         \E to \in {None, Some(from), Some(Len(AllPeers))} : batch_any(from, to)
    \/ batch_first
    \/ batch_next

SpecBatch == InitBatch /\ [][NextBatch]_vars /\ WF_vars(batch_next)

(***************************************************************************)
(* PeerConfig::batch_peers and PeerConfig::peers on a listing of the       *)
(* directory: an entry is << id, path >>, the peer is loaded by its id and *)
(* the file of the entry is removed.                                       *)
(***************************************************************************)
\* .filter(|p| !p.2.info.platform.is_empty())
listed_keep(config) == config.platform # ""

RECURSIVE listed_map(_, _)
\* all[from..to].iter().map(|(id, t, p)| ..).filter(..).collect() on the files: each entry
\* in its turn is loaded with PeerConfig::load(&id), which reads PeerConfig::path(id) and
\* stores it again when a secret was not encrypted, and fs::remove_file(p) when the
\* platform is empty
listed_map(entries, files) ==
    IF entries = << >> THEN [files |-> files, peers |-> << >>, stored |-> {}]
    ELSE LET id == entries[1][1]
             p == entries[1][2]
             path == PeerConfig_path(id)
             c == IF path \in DOMAIN files THEN PeerConfig_load_(files[path])
                  ELSE [config |-> PeerConfig_default, store |-> FALSE]
             stored == IF c.store
                       THEN [q \in DOMAIN files \cup {path} |->
                               IF q = path THEN PeerConfig_store_(c.config) ELSE files[q]]
                       ELSE files
             removed == IF c.config.platform = ""
                        THEN [q \in DOMAIN stored \ {p} |-> stored[q]]
                        ELSE stored
             rest == listed_map(Tail(entries), removed)
         IN [files |-> rest.files,
             peers |-> (IF listed_keep(c.config) THEN << << id, c.config >> >> ELSE << >>)
                       \o rest.peers,
             stored |-> (IF c.store THEN {id} ELSE {}) \cup rest.stored]

\* PeerConfig::batch_peers(all, from, to) on a listing
listed_batch_peers(op, all, from, to) ==
    /\ family = "listed"
    /\ \E to2 \in {batch_to(all, from, to)} :
       \E loaded \in {IF from >= Len(all) \/ to2 <= from THEN << >>
                      ELSE SubSeq(all, from + 1, to2)} :
       \E r \in {listed_map(loaded, file_peer)} :
         /\ file_peer' = r.files
         /\ NEW_STORED_PEER_CONFIG' = NEW_STORED_PEER_CONFIG \cup r.stored
         /\ last' = [NoLocals EXCEPT
                       !.op = op, !.arg = << all, from, to >>,
                       !.before = loaded, !.old = file_peer,
                       !.ret = << r.peers,
                                  IF from >= Len(all) THEN 0
                                  ELSE IF to2 <= from THEN from ELSE to2 >>]
    /\ UNCHANGED peerOther

\* the orders in which a listing may come: it is sorted by the modification times
ListingOrders(S) ==
    {all \in [1 .. Cardinality(S) -> S] :
       \A i, j \in 1 .. Cardinality(S) : all[i] = all[j] => i = j}

\* a caller hands the listing it has got to batch_peers
listed_batch(from, to) ==
    /\ last.op = "PeerConfig::get_vec_id_modified_time_path"
    /\ \E all \in ListingOrders(last.ret) :
         listed_batch_peers("PeerConfig::batch_peers", all, from, to)

\* PeerConfig::peers(None)
listed_peers ==
    \E all \in ListingOrders(vec_id_modified_time_path) :
       listed_batch_peers("PeerConfig::peers", all, 0, Some(Len(all)))

\* a plain id, and an id that is stored under a name the listing decodes to that id
ListedIds == {<< "a" >>, Base64Prefix \o << "Y", "Q", "=", "=" >>}

ListedConfigs == {PeerConfig_default, [PeerConfig_default EXCEPT !.platform = "Linux"]}

InitListed == InitLoaded({"listed"}, {1}, {"i1"}, {""}, {EmptyMap}, {Text("")})

NextListed ==
    \/ \E id \in ListedIds, cfg \in ListedConfigs : path_store(id, cfg)
    \/ \E id \in ListedIds : path_remove(id)
    \/ get_vec_id_modified_time_path
    \/ \E from \in {0, 1}, to \in {None, Some(1), Some(2)} : listed_batch(from, to)
    \/ listed_peers

SpecListed == InitListed /\ [][NextListed]_vars

(***************************************************************************)
(* Config::update_latency                                                  *)
(***************************************************************************)
\* i64::MAX, at the width of the integers of the model
I64_MAX == 2147483647

\* every positive latency replaces the one found before
closer_AnyPositive(tmp_delay, delay) == tmp_delay > 0

\* if tmp_delay > &0 && tmp_delay < &delay
closer(tmp_delay, delay) == tmp_delay > 0 /\ tmp_delay < delay

RECURSIVE min_latency(_, _, _, _)
\* the loop over ONLINE, which iterates in the order `order`: the host it ends with
min_latency(order, online, host, delay) ==
    IF order = << >> THEN host
    ELSE LET tmp_host == Head(order) IN
         IF closer(online[tmp_host], delay)
         THEN min_latency(Tail(order), online, tmp_host, online[tmp_host])
         ELSE min_latency(Tail(order), online, host, delay)

\* the orders in which a HashMap with the keys S iterates
Orders(S) == {o \in [1 .. Cardinality(S) -> S] : \A i, j \in DOMAIN o : o[i] = o[j] => i = j}

update_latency(host, latency) ==
    /\ family = "latency"
    /\ CanWrite("CONFIG2")
    /\ ONLINE' = MapInsert(ONLINE, host, latency)
    /\ \E order \in Orders(DOMAIN ONLINE') :
         LET found == min_latency(order, ONLINE', "", I64_MAX) IN
         IF found # "" /\ found # CONFIG2.rendezvous_server
         THEN /\ CONFIG2' = [CONFIG2 EXCEPT !.rendezvous_server = found]
              /\ file_config2' = Config2_store(CONFIG2')
         ELSE UNCHANGED << CONFIG2, file_config2 >>
    /\ last' = [NoLocals EXCEPT
                  !.op = "Config::update_latency", !.arg = << host, latency >>,
                  !.old = << CONFIG, CONFIG2, TRUSTED_DEVICES, file_config, file_config2 >>]
    /\ UNCHANGED << family, optVars, staticVars, statusVars, file_book, file_peer, NEW_STORED_PEER_CONFIG, keyVars,
                    CONFIG, LOCAL_CONFIG, USER_DEFAULT_CONFIG, TRUSTED_DEVICES, file_config,
                    file_local, file_default, now, wlock, pc, loc >>

reset_online ==
    /\ family = "latency"
    /\ ONLINE' = EmptyMap
    /\ last' = [NoLocals EXCEPT !.op = "Config::reset_online"]
    /\ UNCHANGED << family, optVars, staticVars, statusVars, file_book, file_peer, NEW_STORED_PEER_CONFIG, keyVars,
                    CONFIG, CONFIG2, LOCAL_CONFIG, USER_DEFAULT_CONFIG, TRUSTED_DEVICES,
                    file_config, file_config2, file_local, file_default, now, wlock, pc, loc >>

Hosts == {"", "a", "b"}

Latencies == {0, 1, 2, I64_MAX}

InitLatency == InitLoaded({"latency"}, {1}, {"i1"}, {""}, {EmptyMap}, {Text("")})

NextLatency ==
    \/ \E host \in Hosts, latency \in Latencies : update_latency(host, latency)
    \/ reset_online

SpecLatency == InitLatency /\ [][NextLatency]_vars

(***************************************************************************)
(* The rendezvous server.  In this part strings are sequences of           *)
(* characters, the empty string is << >>.                                   *)
(***************************************************************************)
RENDEZVOUS_PORT == << "2", "1", "1", "6" >>

RENDEZVOUS_SERVERS == << << "h", "b", "y", "x", ".", "m", "y", "d", "s", ".", "m", "e" >> >>

\* str::contains(char)
contains(s, c) == \E i \in DOMAIN s : s[i] = c

RECURSIVE split(_, _)
\* str::split(char): the pieces between the separators, empty pieces included
split(s, c) ==
    LET at == {i \in DOMAIN s : s[i] = c} IN
    IF at = {} THEN << s >>
    ELSE LET i == CHOOSE i \in at : \A j \in at : i <= j IN
         << SubSeq(s, 1, i - 1) >> \o split(SubSeq(s, i + 1, Len(s)), c)

\* Iterator::filter(|x| x.contains(c))
RECURSIVE filter_contains(_, _)
filter_contains(ss, c) ==
    IF ss = << >> THEN << >>
    ELSE (IF contains(Head(ss), c) THEN << Head(ss) >> ELSE << >>)
         \o filter_contains(Tail(ss), c)

\* Config::get_option on strings of characters
get_option_chars(k) ==
    LET o == get_or(OVERWRITE_SETTINGS, CONFIG2.options, DEFAULT_SETTINGS, k) IN
    IF o = None THEN << >> ELSE o[1]

\* the servers of the option are taken whatever the serial is
get_rendezvous_servers_AnySerial ==
    LET exe == EXE_RENDEZVOUS_SERVER
        custom == get_option_chars("custom-rendezvous-server")
        prod == PROD_RENDEZVOUS_SERVER
        ss == filter_contains(split(get_option_chars("rendezvous-servers"), ","), ".")
    IN IF exe # << >> THEN << exe >>
       ELSE IF custom # << >> THEN << custom >>
       ELSE IF prod # << >> THEN << prod >>
       ELSE IF ss # << >> THEN ss
       ELSE RENDEZVOUS_SERVERS

get_rendezvous_servers ==
    LET exe == EXE_RENDEZVOUS_SERVER
        custom == get_option_chars("custom-rendezvous-server")
        prod == PROD_RENDEZVOUS_SERVER
        serial_obsolute == CONFIG2.serial > SERIAL
        ss == filter_contains(split(get_option_chars("rendezvous-servers"), ","), ".")
    IN IF exe # << >> THEN << exe >>
       ELSE IF custom # << >> THEN << custom >>
       ELSE IF prod # << >> THEN << prod >>
       ELSE IF serial_obsolute /\ ss # << >> THEN ss
       ELSE RENDEZVOUS_SERVERS

get_rendezvous_server ==
    LET s1 == EXE_RENDEZVOUS_SERVER
        s2 == IF s1 = << >> THEN get_option_chars("custom-rendezvous-server") ELSE s1
        s3 == IF s2 = << >> THEN PROD_RENDEZVOUS_SERVER ELSE s2
        s4 == IF s3 = << >> THEN CONFIG2.rendezvous_server ELSE s3
        s5 == IF s4 = << >>
              THEN LET servers == get_rendezvous_servers IN
                   IF servers = << >> THEN << >> ELSE Head(servers)
              ELSE s4
    IN IF ~contains(s5, ":") THEN s5 \o << ":" >> \o RENDEZVOUS_PORT ELSE s5

rendezvousOther == << family, optVars, statusVars, file_book, file_peer, NEW_STORED_PEER_CONFIG, keyVars,
                     ONLINE, CONFIG, LOCAL_CONFIG, USER_DEFAULT_CONFIG, TRUSTED_DEVICES,
                     file_config, file_local, file_default, now, wlock, pc, loc >>

get_rendezvous_server_call ==
    /\ family = "rendezvous"
    /\ last' = [NoLocals EXCEPT !.op = "Config::get_rendezvous_server",
                                !.ret = get_rendezvous_server]
    /\ UNCHANGED << rendezvousOther, staticVars, CONFIG2, file_config2 >>

get_rendezvous_servers_call ==
    /\ family = "rendezvous"
    /\ last' = [NoLocals EXCEPT !.op = "Config::get_rendezvous_servers",
                                !.ret = get_rendezvous_servers]
    /\ UNCHANGED << rendezvousOther, staticVars, CONFIG2, file_config2 >>

set_serial(serial) ==
    /\ family = "rendezvous"
    /\ IF serial = CONFIG2.serial
       THEN UNCHANGED << CONFIG2, file_config2 >>
       ELSE /\ CONFIG2' = [CONFIG2 EXCEPT !.serial = serial]
            /\ file_config2' = Config2_store(CONFIG2')
    /\ last' = [NoLocals EXCEPT !.op = "Config::set_serial", !.arg = << serial >>]
    /\ UNCHANGED << rendezvousOther, staticVars >>

\* *EXE_RENDEZVOUS_SERVER.write().unwrap() = s, by the embedding program
write_exe(s) ==
    /\ family = "rendezvous"
    /\ EXE_RENDEZVOUS_SERVER' = s
    /\ last' = [NoLocals EXCEPT !.op = "EXE_RENDEZVOUS_SERVER.write", !.arg = << s >>]
    /\ UNCHANGED << rendezvousOther, PROD_RENDEZVOUS_SERVER, CONFIG2, file_config2 >>

write_prod(s) ==
    /\ family = "rendezvous"
    /\ PROD_RENDEZVOUS_SERVER' = s
    /\ last' = [NoLocals EXCEPT !.op = "PROD_RENDEZVOUS_SERVER.write", !.arg = << s >>]
    /\ UNCHANGED << rendezvousOther, EXE_RENDEZVOUS_SERVER, CONFIG2, file_config2 >>

InitRendezvous == InitLoaded({"rendezvous"}, {1}, {"i1"}, {""}, {EmptyMap}, {Text("")})

NextRendezvous ==
    \/ get_rendezvous_server_call
    \/ get_rendezvous_servers_call
    \/ \E serial \in Serials : set_serial(serial)
    \/ \E s \in {<< >>, << "e" >>, << "e", ":", "1" >>} : write_exe(s)
    \/ \E s \in {<< >>, << "p" >>} : write_prod(s)

SpecRendezvous == InitRendezvous /\ [][NextRendezvous]_vars

(***************************************************************************)
(* Decoding a document.  A document is a map from keys to values; a value  *)
(* has a type t (int, str, array of integers, table) and the content of     *)
(* that type.                                                              *)
(***************************************************************************)
NoValue == [t |-> "none", n |-> 0, s |-> "", a |-> << >>, m |-> EmptyMap]

Value_Integer(n) == [NoValue EXCEPT !.t = "int", !.n = n]

Value_String(x) == [NoValue EXCEPT !.t = "str", !.s = x]

Value_Array(a) == [NoValue EXCEPT !.t = "array", !.a = a]

Value_Table(m) == [NoValue EXCEPT !.t = "table", !.m = m]

Ok(v) == [ok |-> TRUE, v |-> v]

Err == [ok |-> FALSE, v |-> << >>]

\* a missing key takes the default of the field; a key that is present is decoded
Field(doc, k, default, decoded) == IF k \in DOMAIN doc THEN decoded ELSE Ok(default)

\* deserialize_default!(deserialize_i32, i32): the error of a wrong type is discarded
deserialize_i32(value) == IF value.t = "int" THEN Ok(value.n) ELSE Ok(0)

\* deserialize_default!(deserialize_string, String)
deserialize_string(value) == IF value.t = "str" THEN Ok(value.s) ELSE Ok("")

\* PeerConfig::default_trackpad_speed
default_trackpad_speed(self) ==
    LET p == parse(UserDefaultConfig_get(self, OPTION_TRACKPAD_SPEED)) IN
    IF p = None THEN 100 ELSE p[1]

\* PeerConfig::default_custom_image_quality
default_custom_image_quality(self) ==
    LET p == parse(UserDefaultConfig_get(self, OPTION_CUSTOM_IMAGE_QUALITY)) IN
    << IF p = None THEN 50 ELSE p[1] >>

\* the range is not looked at
deserialize_trackpad_speed_AnyInt(value, self) == IF value.t # "int" THEN Err ELSE Ok(value.n)

\* PeerConfig::deserialize_trackpad_speed: the error of a wrong type is returned
deserialize_trackpad_speed(value, self) ==
    IF value.t # "int" THEN Err
    ELSE IF value.n >= 10 /\ value.n <= 1000 THEN Ok(value.n)
    ELSE Ok(default_trackpad_speed(self))

\* PeerConfig::deserialize_custom_image_quality: the error of a wrong type is returned
deserialize_custom_image_quality(value, self) ==
    IF value.t # "array" THEN Err
    ELSE IF Len(value.a) = 1 /\ value.a[1] >= 10 /\ value.a[1] <= 4095 THEN Ok(value.a)
    ELSE Ok(default_custom_image_quality(self))

\* Socks5Server (Deserialize): a table is expected, unknown keys are skipped
Socks5Server_decode(value) ==
    IF value.t # "table" THEN Err
    ELSE Ok([password |-> Field(value.m, "password", "",
                                deserialize_string(value.m["password"])).v])

\* Option<Socks5Server> with #[serde(default)]
deserialize_socks(value) ==
    LET server == Socks5Server_decode(value) IN
    IF server.ok THEN Ok(Some(server.v)) ELSE Err

\* the struct is built when every field has been decoded, else the first error is returned
Struct(fields) ==
    IF \A k \in DOMAIN fields : fields[k].ok THEN Ok([k \in DOMAIN fields |-> fields[k].v])
    ELSE Err

\* toml::from_str::<PeerConfig>, self is the UserDefaultConfig that read() finds
PeerConfig_decode(doc, self) ==
    Struct([direct_failures |->
               Field(doc, "direct_failures", 0, deserialize_i32(doc["direct_failures"])),
            trackpad_speed |->
               Field(doc, OPTION_TRACKPAD_SPEED, default_trackpad_speed(self),
                     deserialize_trackpad_speed(doc[OPTION_TRACKPAD_SPEED], self)),
            custom_image_quality |->
               Field(doc, OPTION_CUSTOM_IMAGE_QUALITY, default_custom_image_quality(self),
                     deserialize_custom_image_quality(doc[OPTION_CUSTOM_IMAGE_QUALITY],
                                                      self))])

\* toml::from_str::<Config2>
Config2_decode(doc) ==
    Struct([nat_type |-> Field(doc, "nat_type", 0, deserialize_i32(doc["nat_type"])),
            socks |-> Field(doc, "socks", None, deserialize_socks(doc["socks"]))])

decodeOther == << family, optVars, staticVars, statusVars, file_book, file_peer, NEW_STORED_PEER_CONFIG,
                 keyVars, ONLINE, CONFIG, CONFIG2, LOCAL_CONFIG, TRUSTED_DEVICES, file_config,
                 file_config2, file_local, file_default, now, wlock, pc, loc >>

\* the defaults are read through UserDefaultConfig::read, which loads the file again when
\* a second has passed
PeerConfig_decode_call(doc) ==
    /\ family = "decode"
    /\ USER_DEFAULT_CONFIG' \in {USER_DEFAULT_CONFIG, UserDefaultConfig_load}
    /\ last' = [NoLocals EXCEPT !.op = "toml::from_str::<PeerConfig>", !.arg = << doc >>,
                                !.ret = PeerConfig_decode(doc, USER_DEFAULT_CONFIG')]
    /\ UNCHANGED decodeOther

Config2_decode_call(doc) ==
    /\ family = "decode"
    /\ last' = [NoLocals EXCEPT !.op = "toml::from_str::<Config2>", !.arg = << doc >>,
                                !.ret = Config2_decode(doc)]
    /\ UNCHANGED << decodeOther, USER_DEFAULT_CONFIG >>

\* documents: each key is absent or has one of its values, the key hello is not a field
Docs(values) ==
    UNION {{d \in [D -> UNION {values[k] : k \in D}] : \A k \in D : d[k] \in values[k]} :
             D \in SUBSET DOMAIN values}

PeerDocs ==
    Docs([direct_failures |-> {Value_Integer(3), Value_String("3")},
          hello |-> {Value_String("world")}]
         @@ (OPTION_TRACKPAD_SPEED :>
               {Value_Integer(5), Value_Integer(10), Value_Integer(1000), Value_Integer(1001),
                Value_String("100")})
         @@ (OPTION_CUSTOM_IMAGE_QUALITY :>
               {Value_Array(<< 5 >>), Value_Array(<< 50 >>), Value_Array(<< 4095 >>),
                Value_Array(<< 4096 >>), Value_Array(<< 50, 60 >>), Value_Integer(50)}))

NetworkDocs ==
    Docs([nat_type |-> {Value_Integer(1), Value_String("1")},
          hello |-> {Value_String("world")},
          socks |-> {Value_Table([password |-> Value_String("pw")]), Value_Table([password |-> Value_Integer(1)]),
                     Value_Table([hello |-> Value_String("world")]), Value_Integer(1)}])

InitDecode == InitLoaded({"decode"}, {1}, {"i1"}, {""}, {EmptyMap}, {Text("")})

NextDecode ==
    \/ \E doc \in PeerDocs : PeerConfig_decode_call(doc)
    \/ \E doc \in NetworkDocs : Config2_decode_call(doc)

SpecDecode == InitDecode /\ [][NextDecode]_vars

(***************************************************************************)
(* LocalConfig::set_size                                                   *)
(***************************************************************************)
\* only the width is looked at
set_size_refused_WidthOnly(size) == size[3] < 300

\* size.2 < 300 || size.3 < 300
set_size_refused(size) == size[3] < 300 \/ size[4] < 300

set_size(x, y, w, h) ==
    /\ family = "size"
    /\ LET size == << x, y, w, h >> IN
       IF size = LOCAL_CONFIG.size \/ set_size_refused(size)
       THEN UNCHANGED << LOCAL_CONFIG, file_local >>
       ELSE /\ LOCAL_CONFIG' = [LOCAL_CONFIG EXCEPT !.size = size]
            /\ file_local' = LocalConfig_store(LOCAL_CONFIG')
    /\ last' = [NoLocals EXCEPT !.op = "LocalConfig::set_size", !.arg = << x, y, w, h >>]
    /\ UNCHANGED << family, optVars, extVars, CONFIG, CONFIG2, USER_DEFAULT_CONFIG,
                    TRUSTED_DEVICES, file_config, file_config2, file_default, now, wlock, pc,
                    loc >>

get_size ==
    /\ family = "size"
    /\ last' = [NoLocals EXCEPT !.op = "LocalConfig::get_size", !.ret = LOCAL_CONFIG.size]
    /\ UNCHANGED << family, optVars, extVars, CONFIG, CONFIG2, LOCAL_CONFIG,
                    USER_DEFAULT_CONFIG, TRUSTED_DEVICES, file_config, file_config2, file_local,
                    file_default, now, wlock, pc, loc >>

Widths == {0, 299, 300, 800}

InitSize == InitLoaded({"size"}, {1}, {"i1"}, {""}, {EmptyMap}, {Text("")})

NextSize ==
    \/ \E x \in {0, 1}, y \in {0, 1}, w \in Widths, h \in Widths : set_size(x, y, w, h)
    \/ get_size

SpecSize == InitSize /\ [][NextSize]_vars

(***************************************************************************)
(* Writers and check-then-write paths, statement by statement.  A guard    *)
(* that a statement creates as a temporary is dropped when the statement   *)
(* ends; a guard bound to a variable is dropped when the function returns. *)
(***************************************************************************)
lockOther == << family, optVars, file_book, file_peer, NEW_STORED_PEER_CONFIG, keyVars, ONLINE,
               staticVars, USER_DEFAULT_CONFIG, TRUSTED_DEVICES, file_default, now >>

ReadGuard(t, l) == CanRead(l) /\ rlock' = [rlock EXCEPT ![l] = @ \cup {t}]

DropRead(t, l) == rlock' = [rlock EXCEPT ![l] = @ \ {t}]

WriteGuard(t, l) == CanWrite(l) /\ wlock' = [wlock EXCEPT ![l] = t]

DropWrite(l) == wlock' = [wlock EXCEPT ![l] = 0]

Goto(t, label) == pc' = [pc EXCEPT ![t] = label] /\ UNCHANGED << loc, last >>

\* ---- Status::set ----
\* Self::get(k): STATUS.read().unwrap().values.get(k).cloned().unwrap_or_default()
sts_get(t) ==
    /\ pc[t] = "sts_get"
    /\ ReadGuard(t, "STATUS")
    /\ pc' = [pc EXCEPT ![t] = "sts_got"]
    /\ loc' = [loc EXCEPT ![t].before = UnwrapOrDefault(MapGet(STATUS, loc[t].arg[1]))]
    /\ UNCHANGED << lockOther, CONFIG, CONFIG2, LOCAL_CONFIG, STATUS, file_config,
                    file_config2, file_local, file_status, wlock, last >>

\* the read guard is kept when Status::get has returned
sts_got_KeepGuard(t) ==
    /\ pc[t] = "sts_got"
    /\ IF loc[t].before = loc[t].arg[2] THEN Return(t, loc[t]) ELSE Goto(t, "sts_lock")
    /\ UNCHANGED << lockOther, CONFIG, CONFIG2, LOCAL_CONFIG, STATUS, file_config,
                    file_config2, file_local, file_status, wlock, rlock >>

\* Status::get returns, its guard is dropped: if Self::get(k) == v { return; }
sts_got(t) ==
    /\ pc[t] = "sts_got"
    /\ DropRead(t, "STATUS")
    /\ IF loc[t].before = loc[t].arg[2] THEN Return(t, loc[t]) ELSE Goto(t, "sts_lock")
    /\ UNCHANGED << lockOther, CONFIG, CONFIG2, LOCAL_CONFIG, STATUS, file_config,
                    file_config2, file_local, file_status, wlock >>

\* let mut st = STATUS.write().unwrap(); st.values.insert(k.to_owned(), v);
sts_lock(t) ==
    /\ pc[t] = "sts_lock"
    /\ WriteGuard(t, "STATUS")
    /\ STATUS' = MapInsert(STATUS, loc[t].arg[1], loc[t].arg[2])
    /\ Goto(t, "sts_store")
    /\ UNCHANGED << lockOther, CONFIG, CONFIG2, LOCAL_CONFIG, file_config, file_config2,
                    file_local, file_status, rlock >>

\* st.store(); and the guard is dropped at the end of the function
sts_store(t) ==
    /\ pc[t] = "sts_store"
    /\ file_status' = STATUS
    /\ DropWrite("STATUS")
    /\ Return(t, loc[t])
    /\ UNCHANGED << lockOther, CONFIG, CONFIG2, LOCAL_CONFIG, STATUS, file_config,
                    file_config2, file_local, rlock >>

Status_set(t, k, v) == Call(t, "Status::set", << k, v >>, "sts_get", << "done" >>)

\* ---- Config::set_nat_type ----
\* let mut config = CONFIG2.write().unwrap(); if nat_type == config.nat_type { return; }
\* config.nat_type = nat_type;
snt_lock(t) ==
    /\ pc[t] = "snt_lock"
    /\ CanWrite("CONFIG2")
    /\ IF loc[t].arg = CONFIG2.nat_type
       THEN /\ Return(t, loc[t])
            /\ UNCHANGED << CONFIG2, wlock >>
       ELSE /\ WriteGuard(t, "CONFIG2")
            /\ CONFIG2' = [CONFIG2 EXCEPT !.nat_type = loc[t].arg]
            /\ Goto(t, "snt_store")
    /\ UNCHANGED << lockOther, CONFIG, LOCAL_CONFIG, STATUS, file_config, file_config2,
                    file_local, file_status, rlock >>

\* the write guard is dropped when the record is changed, the file is written after that
snt_store_Unlocked(t) ==
    /\ pc[t] = "snt_store"
    /\ IF wlock["CONFIG2"] = t
       THEN /\ DropWrite("CONFIG2")
            /\ loc' = [loc EXCEPT ![t].before = CONFIG2]
            /\ UNCHANGED << file_config2, pc, last >>
       ELSE /\ file_config2' = Config2_store(loc[t].before)
            /\ Return(t, [loc[t] EXCEPT !.before = << >>])
            /\ UNCHANGED wlock
    /\ UNCHANGED << lockOther, CONFIG, CONFIG2, LOCAL_CONFIG, STATUS, file_config, file_local,
                    file_status, rlock >>

\* config.store(); and the guard is dropped at the end of the function
snt_store(t) ==
    /\ pc[t] = "snt_store"
    /\ file_config2' = Config2_store(CONFIG2)
    /\ DropWrite("CONFIG2")
    /\ Return(t, loc[t])
    /\ UNCHANGED << lockOther, CONFIG, CONFIG2, LOCAL_CONFIG, STATUS, file_config, file_local,
                    file_status, rlock >>

set_nat_type(t, nat_type) ==
    Call(t, "Config::set_nat_type", nat_type, "snt_lock", << "done" >>)

\* ---- Config::set_option ----
\* if !is_option_can_save(&OVERWRITE_SETTINGS, &k, &DEFAULT_SETTINGS, &v) { return; }
so_check(t) ==
    /\ pc[t] = "so_check"
    /\ IF ~is_option_can_save(OVERWRITE_SETTINGS, loc[t].arg[1], DEFAULT_SETTINGS,
                              loc[t].arg[2])
       THEN Return(t, loc[t])
       ELSE Goto(t, "so_lock")
    /\ UNCHANGED << lockOther, CONFIG, CONFIG2, LOCAL_CONFIG, STATUS, file_config,
                    file_config2, file_local, file_status, rlock, wlock >>

\* let mut config = CONFIG2.write().unwrap(); .. if v2 != config.options.get(&k) {
\* remove or insert
so_lock(t) ==
    /\ pc[t] = "so_lock"
    /\ CanWrite("CONFIG2")
    /\ LET k == loc[t].arg[1]
           v == loc[t].arg[2]
           v2 == IF v = "" THEN None ELSE Some(v)
       IN IF v2 # MapGet(CONFIG2.options, k)
          THEN /\ WriteGuard(t, "CONFIG2")
               /\ CONFIG2' = [CONFIG2 EXCEPT !.options =
                                 IF v2 = None THEN MapRemove(@, k) ELSE MapInsert(@, k, v)]
               /\ Goto(t, "so_store")
          ELSE /\ Return(t, loc[t])
               /\ UNCHANGED << CONFIG2, wlock >>
    /\ UNCHANGED << lockOther, CONFIG, LOCAL_CONFIG, STATUS, file_config, file_config2,
                    file_local, file_status, rlock >>

\* config.store(); } and the guard is dropped at the end of the function
so_store(t) ==
    /\ pc[t] = "so_store"
    /\ file_config2' = Config2_store(CONFIG2)
    /\ DropWrite("CONFIG2")
    /\ Return(t, loc[t])
    /\ UNCHANGED << lockOther, CONFIG, CONFIG2, LOCAL_CONFIG, STATUS, file_config, file_local,
                    file_status, rlock >>

set_option(t, k, v) == Call(t, "Config::set_option", << k, v >>, "so_check", << "done" >>)

\* ---- LocalConfig::set_size, LocalConfig::set_kb_layout_type ----
\* let mut config = LOCAL_CONFIG.write().unwrap(); .. return, or config.size = size;
lss_lock(t) ==
    /\ pc[t] = "lss_lock"
    /\ CanWrite("LOCAL_CONFIG")
    /\ IF loc[t].arg = LOCAL_CONFIG.size \/ set_size_refused(loc[t].arg)
       THEN /\ Return(t, loc[t])
            /\ UNCHANGED << LOCAL_CONFIG, wlock >>
       ELSE /\ WriteGuard(t, "LOCAL_CONFIG")
            /\ LOCAL_CONFIG' = [LOCAL_CONFIG EXCEPT !.size = loc[t].arg]
            /\ Goto(t, "local_store")
    /\ UNCHANGED << lockOther, CONFIG, CONFIG2, STATUS, file_config, file_config2,
                    file_local, file_status, rlock >>

\* the record is changed and the function returns without config.store()
kb_lock_NoStore(t) ==
    /\ pc[t] = "kb_lock"
    /\ CanWrite("LOCAL_CONFIG")
    /\ LOCAL_CONFIG' = [LOCAL_CONFIG EXCEPT !.kb_layout_type = loc[t].arg]
    /\ Return(t, loc[t])
    /\ UNCHANGED << lockOther, CONFIG, CONFIG2, STATUS, file_config, file_config2,
                    file_local, file_status, rlock, wlock >>

\* let mut config = LOCAL_CONFIG.write().unwrap(); config.kb_layout_type = kb_layout_type;
kb_lock(t) ==
    /\ pc[t] = "kb_lock"
    /\ WriteGuard(t, "LOCAL_CONFIG")
    /\ LOCAL_CONFIG' = [LOCAL_CONFIG EXCEPT !.kb_layout_type = loc[t].arg]
    /\ Goto(t, "local_store")
    /\ UNCHANGED << lockOther, CONFIG, CONFIG2, STATUS, file_config, file_config2,
                    file_local, file_status, rlock >>

\* config.store(); and the guard is dropped at the end of the function
local_store(t) ==
    /\ pc[t] = "local_store"
    /\ file_local' = LocalConfig_store(LOCAL_CONFIG)
    /\ DropWrite("LOCAL_CONFIG")
    /\ Return(t, loc[t])
    /\ UNCHANGED << lockOther, CONFIG, CONFIG2, LOCAL_CONFIG, STATUS, file_config,
                    file_config2, file_status, rlock >>

LocalConfig_set_size(t, size) ==
    Call(t, "LocalConfig::set_size", size, "lss_lock", << "done" >>)

set_kb_layout_type(t, kb_layout_type) ==
    Call(t, "LocalConfig::set_kb_layout_type", kb_layout_type, "kb_lock", << "done" >>)

\* ---- Config::get_id ----
\* let mut id = CONFIG.read().unwrap().id.clone();
gi_read(t) ==
    /\ pc[t] = "gi_read"
    /\ ReadGuard(t, "CONFIG")
    /\ pc' = [pc EXCEPT ![t] = "gi_empty"]
    /\ loc' = [loc EXCEPT ![t].ret = CONFIG.id]
    /\ UNCHANGED << lockOther, CONFIG, CONFIG2, LOCAL_CONFIG, STATUS, file_config,
                    file_config2, file_local, file_status, wlock, last >>

\* the statement has ended; if id.is_empty() { if let Some(tmp) = Config::gen_id() {
\* id = tmp; Config::set_id(&id); } } id
gi_empty(t, gen) ==
    /\ pc[t] = "gi_empty"
    /\ DropRead(t, "CONFIG")
    /\ IF loc[t].ret = "" /\ gen # None
       THEN /\ pc' = [pc EXCEPT ![t] = "si_lock"]
            /\ loc' = [loc EXCEPT ![t].arg = gen[1], ![t].ret = gen[1]]
            /\ UNCHANGED last
       ELSE Return(t, loc[t])
    /\ UNCHANGED << lockOther, CONFIG, CONFIG2, LOCAL_CONFIG, STATUS, file_config,
                    file_config2, file_local, file_status, wlock >>

get_id(t) == Call(t, "Config::get_id", << >>, "gi_read", << "done" >>)

\* ---- Config::set_host_key_confirmed ----
\* matches!(CONFIG.read().unwrap().keys_confirmed.get(host), Some(true))
hk_get(t) ==
    /\ pc[t] = "hk_get"
    /\ ReadGuard(t, "CONFIG")
    /\ pc' = [pc EXCEPT ![t] = "hk_got"]
    /\ loc' = [loc EXCEPT ![t].cached =
                  MapGet(CONFIG.keys_confirmed, loc[t].arg[1]) = Some(TRUE)]
    /\ UNCHANGED << lockOther, CONFIG, CONFIG2, LOCAL_CONFIG, STATUS, file_config,
                    file_config2, file_local, file_status, wlock, last >>

\* get_host_key_confirmed returns, its guard is dropped:
\* if Self::get_host_key_confirmed(host) == v { return; }
hk_got(t) ==
    /\ pc[t] = "hk_got"
    /\ DropRead(t, "CONFIG")
    /\ IF loc[t].cached = loc[t].arg[2] THEN Return(t, loc[t]) ELSE Goto(t, "hk_lock")
    /\ UNCHANGED << lockOther, CONFIG, CONFIG2, LOCAL_CONFIG, STATUS, file_config,
                    file_config2, file_local, file_status, wlock >>

\* let mut config = CONFIG.write().unwrap(); config.keys_confirmed.insert(host.to_owned(), v);
hk_lock(t) ==
    /\ pc[t] = "hk_lock"
    /\ WriteGuard(t, "CONFIG")
    /\ CONFIG' = [CONFIG EXCEPT !.keys_confirmed = MapInsert(@, loc[t].arg[1], loc[t].arg[2])]
    /\ Goto(t, "si_store")
    /\ UNCHANGED << lockOther, CONFIG2, LOCAL_CONFIG, STATUS, file_config, file_config2,
                    file_local, file_status, rlock >>

set_host_key_confirmed(t, host, v) ==
    Call(t, "Config::set_host_key_confirmed", << host, v >>, "hk_get", << "done" >>)

\* ---- PeerConfig::load, holding the read guard of CONFIG ----
\* let _lock = CONFIG.read().unwrap();
pl_read(t) ==
    /\ pc[t] = "pl_read"
    /\ ReadGuard(t, "CONFIG")
    /\ Goto(t, "pl_load")
    /\ UNCHANGED << lockOther, CONFIG, CONFIG2, LOCAL_CONFIG, STATUS, file_config,
                    file_config2, file_local, file_status, wlock >>

\* match confy::load_path(Self::path(id)) { .. }, and _lock is dropped at the return
pl_load(t) ==
    /\ pc[t] = "pl_load"
    /\ DropRead(t, "CONFIG")
    /\ LET file == file_peer[loc[t].arg]
           loaded == IF file = NoPeerFile THEN [config |-> PeerConfig_default, store |-> FALSE]
                     ELSE PeerConfig_load_(file[1])
       IN Return(t, [loc[t] EXCEPT !.ret = loaded.config])
    /\ UNCHANGED << lockOther, CONFIG, CONFIG2, LOCAL_CONFIG, STATUS, file_config,
                    file_config2, file_local, file_status, wlock >>

PeerConfig_load_call(t, id) == Call(t, "PeerConfig::load", id, "pl_read", << "done" >>)

\* ---- two threads on one singleton ----
NatTypes == {0, 1}

StatusKeys == {"k"}

StatusValues == {"v", "w"}

KbLayouts == {"", "de"}

Sizes == {<< 0, 0, 299, 800 >>, << 0, 0, 800, 600 >>}

GenIds == {None, Some("i2")}

InitLocks ==
    InitLoaded({"identity", "network", "local", "status"}, {1, 2}, {"", "i1"}, {""},
               {EmptyMap}, {Text("")})

NextLocks ==
    \E t \in Threads :
       \/ sts_get(t) \/ sts_got(t) \/ sts_lock(t) \/ sts_store(t)
       \/ snt_lock(t) \/ snt_store(t)
       \/ so_check(t) \/ so_lock(t) \/ so_store(t)
       \/ c2s_lock(t) \/ c2s_store(t)
       \/ lss_lock(t) \/ kb_lock(t) \/ local_store(t)
       \/ si_lock(t) \/ si_store(t)
       \/ gi_read(t) \/ \E gen \in GenIds : gi_empty(t, gen)
       \/ hk_get(t) \/ hk_got(t) \/ hk_lock(t)
       \/ pl_read(t) \/ pl_load(t)
       \/ family = "status" /\ \E k \in StatusKeys, v \in StatusValues : Status_set(t, k, v)
       \/ family = "network" /\ \E nat_type \in NatTypes : set_nat_type(t, nat_type)
       \/ family = "network" /\ \E v \in {"", "x"} : set_option(t, "a", v)
       \/ family = "network"
          /\ \E nat_type \in NatTypes :
                Config2_set(t, [Config2_default EXCEPT !.nat_type = nat_type])
       \/ family = "local" /\ \E size \in Sizes : LocalConfig_set_size(t, size)
       \/ family = "local" /\ \E kb \in KbLayouts : set_kb_layout_type(t, kb)
       \/ family = "identity" /\ set_id(t, "i3")
       \/ family = "identity" /\ get_id(t)
       \/ family = "identity"
          /\ \E v \in BOOLEAN : set_host_key_confirmed(t, "h", v)
       \/ family = "identity" /\ \E id \in PeerIds : PeerConfig_load_call(t, id)

SpecLocks == InitLocks /\ [][NextLocks]_vars

\* ---- Config::update_latency, statement by statement, on two threads ----
latencyOther == << family, optVars, file_book, file_peer, NEW_STORED_PEER_CONFIG, keyVars,
                  staticVars, statusVars, CONFIG, LOCAL_CONFIG, USER_DEFAULT_CONFIG,
                  TRUSTED_DEVICES, file_config, file_local, file_default, now >>

\* ONLINE.lock().unwrap().insert(host.to_owned(), latency); the guard ends with the statement
ul_insert(t) ==
    /\ pc[t] = "ul_insert"
    /\ ONLINE' = MapInsert(ONLINE, loc[t].arg[1], loc[t].arg[2])
    /\ Goto(t, "ul_scan")
    /\ UNCHANGED << latencyOther, CONFIG2, file_config2, wlock >>

\* for (tmp_host, tmp_delay) in ONLINE.lock().unwrap().iter() { .. }: the loop runs under
\* the guard of ONLINE, which ends with the loop
ul_scan(t) ==
    /\ pc[t] = "ul_scan"
    /\ \E order \in Orders(DOMAIN ONLINE) :
         loc' = [loc EXCEPT ![t].ret = min_latency(order, ONLINE, "", I64_MAX)]
    /\ pc' = [pc EXCEPT ![t] = "ul_lock"]
    /\ UNCHANGED << latencyOther, ONLINE, CONFIG2, file_config2, wlock, last >>

\* if !host.is_empty() { let mut config = CONFIG2.write().unwrap();
\* if host != config.rendezvous_server { config.rendezvous_server = host;
ul_lock(t) ==
    /\ pc[t] = "ul_lock"
    /\ IF loc[t].ret = ""
       THEN /\ Return(t, loc[t])
            /\ UNCHANGED << CONFIG2, wlock >>
       ELSE /\ CanWrite("CONFIG2")
            /\ IF loc[t].ret = CONFIG2.rendezvous_server
               THEN /\ Return(t, loc[t])
                    /\ UNCHANGED << CONFIG2, wlock >>
               ELSE /\ WriteGuard(t, "CONFIG2")
                    /\ CONFIG2' = [CONFIG2 EXCEPT !.rendezvous_server = loc[t].ret]
                    /\ Goto(t, "ul_store")
    /\ UNCHANGED << latencyOther, ONLINE, file_config2 >>

\* config.store(); and the guard is dropped at the end of the block
ul_store(t) ==
    /\ pc[t] = "ul_store"
    /\ file_config2' = Config2_store(CONFIG2)
    /\ DropWrite("CONFIG2")
    /\ Return(t, loc[t])
    /\ UNCHANGED << latencyOther, ONLINE, CONFIG2 >>

update_latency_call(t, host, latency) ==
    Call(t, "Config::update_latency", << host, latency >>, "ul_insert", << "done" >>)

\* hosts with a name and latencies above 0 and below i64::MAX
OnlineHosts == {"a", "b"}

PositiveLatencies == {1, 2, 3}

InitLatencies == InitLoaded({"latencies"}, {1, 2}, {"i1"}, {""}, {EmptyMap}, {Text("")})

NextLatencies ==
    \E t \in Threads :
       \/ ul_insert(t)
       \/ ul_scan(t)
       \/ ul_lock(t)
       \/ ul_store(t)
       \/ \E host \in OnlineHosts, latency \in PositiveLatencies :
            update_latency_call(t, host, latency)

SpecLatencies == InitLatencies /\ [][NextLatencies]_vars

(***************************************************************************)
(* The confirmation of the key: the flag of the identity and the map of    *)
(* the hosts that have confirmed it.                                       *)
(***************************************************************************)
\* let mut config = CONFIG.write().unwrap(); if config.key_confirmed == v { return; }
\* config.key_confirmed = v; if !v { config.keys_confirmed = Default::default(); }
skc_lock(t) ==
    /\ pc[t] = "skc_lock"
    /\ CanWrite("CONFIG")
    /\ IF CONFIG.key_confirmed = loc[t].arg
       THEN /\ Return(t, loc[t])
            /\ UNCHANGED << CONFIG, wlock >>
       ELSE /\ wlock' = [wlock EXCEPT !["CONFIG"] = t]
            /\ CONFIG' = [CONFIG EXCEPT
                            !.key_confirmed = loc[t].arg,
                            !.keys_confirmed = IF loc[t].arg THEN @ ELSE EmptyMap]
            /\ Goto(t, "si_store")
    /\ UNCHANGED << lockOther, CONFIG2, LOCAL_CONFIG, STATUS, file_config, file_config2,
                    file_local, file_status, rlock >>

set_key_confirmed(t, v) == Call(t, "Config::set_key_confirmed", v, "skc_lock", << "done" >>)

\* Config::get_host_key_confirmed
Config_get_host_key_confirmed(host) == MapGet(CONFIG.keys_confirmed, host) = Some(TRUE)

ConfirmingHosts == {"h1", "h2"}

InitConfirmed == InitLoaded({"confirmed"}, {1}, {"i1"}, {""}, {EmptyMap}, {Text("")})

NextConfirmed ==
    \/ \E v \in BOOLEAN : set_key_confirmed(1, v)
    \/ \E host \in ConfirmingHosts, v \in BOOLEAN : set_host_key_confirmed(1, host, v)
    \/ skc_lock(1)
    \/ hk_get(1)
    \/ hk_got(1)
    \/ hk_lock(1)
    \/ si_store(1)

SpecConfirmed == InitConfirmed /\ [][NextConfirmed]_vars

(***************************************************************************)
(* The permanent password: set_permanent_password and the getter with its  *)
(* fallback to the built-in password.                                      *)
(***************************************************************************)
\* Config::get_permanent_password: the stored password, or the built-in one when the
\* stored password is empty
Config_get_permanent_password ==
    IF CONFIG.password = ""
    THEN IF "password" \in DOMAIN HARD_SETTINGS THEN HARD_SETTINGS["password"]
         ELSE CONFIG.password
    ELSE CONFIG.password

get_permanent_password_call(t) ==
    /\ pc[t] = "idle"
    /\ CanRead("CONFIG")
    /\ last' = [NoLocals EXCEPT !.op = "Config::get_permanent_password",
                                !.ret = Config_get_permanent_password,
                                !.seen = << last.op, last.arg >>,
                                !.at = now]
    /\ UNCHANGED << trustedVars, CONFIG, CONFIG2, TRUSTED_DEVICES, file_config, file_config2,
                    now, wlock, pc, loc >>

StoredPasswords == {"", "p1", "p2"}

BuiltInPasswords == {EmptyMap, [k \in {"password"} |-> "p1"]}

InitPassword ==
    InitLoaded({"password"}, {1}, {"i1"}, StoredPasswords, BuiltInPasswords,
               {Text(""), StoredDevices(<< DeviceA >>)})

NextPassword ==
    \/ \E password \in StoredPasswords : set_permanent_password(1, password)
    \/ spp_hard(1)
    \/ spp_lock(1)
    \/ spp_store(1)
    \/ std_begin(1)
    \/ std_lock(1)
    \/ std_store(1)
    \/ std_cache(1)
    \/ spp_unlock(1)
    \/ get_permanent_password_call(1)

SpecPassword == InitPassword /\ [][NextPassword]_vars

(***************************************************************************)
(* The SOCKS proxy: set_socks, get_socks and get_network_type, with the    *)
(* proxy settings of the overwrite and default maps.                       *)
(***************************************************************************)
OPTION_PROXY_URL == "proxy-url"

OPTION_PROXY_USERNAME == "proxy-username"

OPTION_PROXY_PASSWORD == "proxy-password"

\* Config::get_socks_from_custom_client_advanced_settings
get_socks_from_custom_client_advanced_settings(settings) ==
    IF OPTION_PROXY_URL \notin DOMAIN settings THEN None
    ELSE Some([proxy |-> settings[OPTION_PROXY_URL],
               username |-> UnwrapOrDefault(MapGet(settings, OPTION_PROXY_USERNAME)),
               password |-> UnwrapOrDefault(MapGet(settings, OPTION_PROXY_PASSWORD))])

\* Config::get_socks
Config_get_socks ==
    OptOr(OptOr(get_socks_from_custom_client_advanced_settings(OVERWRITE_SETTINGS),
                CONFIG2.socks),
          get_socks_from_custom_client_advanced_settings(DEFAULT_SETTINGS))

\* the default map is not consulted
Config_get_network_type_NoDefault ==
    IF MapGet(OVERWRITE_SETTINGS, OPTION_PROXY_URL) # None THEN "ProxySocks"
    ELSE IF CONFIG2.socks # None THEN "ProxySocks"
    ELSE "Direct"

\* Config::get_network_type
Config_get_network_type ==
    IF MapGet(OVERWRITE_SETTINGS, OPTION_PROXY_URL) # None THEN "ProxySocks"
    ELSE IF CONFIG2.socks # None THEN "ProxySocks"
    ELSE IF MapGet(DEFAULT_SETTINGS, OPTION_PROXY_URL) # None THEN "ProxySocks"
    ELSE "Direct"

socksOther == << family, OVERWRITE_LOCAL_SETTINGS, DEFAULT_LOCAL_SETTINGS,
                OVERWRITE_DISPLAY_SETTINGS, DEFAULT_DISPLAY_SETTINGS, HARD_SETTINGS, extVars,
                CONFIG, LOCAL_CONFIG, USER_DEFAULT_CONFIG, TRUSTED_DEVICES, file_config,
                file_local, file_default, now, wlock, pc, loc >>

\* DEFAULT_SETTINGS.read().unwrap().get(key).map_or(false, |x| *x == value)
equal_to_default(key, value) == MapGet(DEFAULT_SETTINGS, key) = Some(value)

\* Config::set_socks
Config_set_socks(socks) ==
    /\ AllIdle
    /\ IF OPTION_PROXY_URL \in DOMAIN OVERWRITE_SETTINGS
       THEN UNCHANGED << CONFIG2, file_config2 >>
       ELSE IF CONFIG2.socks = socks
       THEN UNCHANGED << CONFIG2, file_config2 >>
       ELSE IF /\ CONFIG2.socks = None
               /\ OPTION_PROXY_URL \in DOMAIN DEFAULT_SETTINGS
               /\ equal_to_default(OPTION_PROXY_URL, socks[1].proxy)
               /\ equal_to_default(OPTION_PROXY_USERNAME, socks[1].username)
               /\ equal_to_default(OPTION_PROXY_PASSWORD, socks[1].password)
       THEN UNCHANGED << CONFIG2, file_config2 >>
       ELSE /\ CONFIG2' = [CONFIG2 EXCEPT !.socks = socks]
            /\ file_config2' = Config2_store(CONFIG2')
    /\ last' = [NoLocals EXCEPT !.op = "Config::set_socks", !.arg = socks]
    /\ UNCHANGED << socksOther, OVERWRITE_SETTINGS, DEFAULT_SETTINGS >>

Config_get_socks_call ==
    /\ AllIdle
    /\ last' = [NoLocals EXCEPT !.op = "Config::get_socks", !.ret = Config_get_socks]
    /\ UNCHANGED << socksOther, OVERWRITE_SETTINGS, DEFAULT_SETTINGS, CONFIG2, file_config2 >>

Config_get_network_type_call ==
    /\ AllIdle
    /\ last' = [NoLocals EXCEPT !.op = "Config::get_network_type",
                                !.ret = Config_get_network_type]
    /\ UNCHANGED << socksOther, OVERWRITE_SETTINGS, DEFAULT_SETTINGS, CONFIG2, file_config2 >>

ProxyKeys == {OPTION_PROXY_URL, OPTION_PROXY_USERNAME, OPTION_PROXY_PASSWORD}

ProxyTexts == {"", "u"}

Socks5Servers ==
    {[proxy |-> proxy, username |-> username, password |-> password] :
        proxy \in ProxyTexts, username \in ProxyTexts, password \in ProxyTexts}

\* the embedding program fills OVERWRITE_SETTINGS and DEFAULT_SETTINGS
write_OVERWRITE_SETTINGS(settings) ==
    /\ AllIdle
    /\ OVERWRITE_SETTINGS' = settings
    /\ last' = [NoLocals EXCEPT !.op = "OVERWRITE_SETTINGS.write"]
    /\ UNCHANGED << socksOther, DEFAULT_SETTINGS, CONFIG2, file_config2 >>

write_DEFAULT_SETTINGS(settings) ==
    /\ AllIdle
    /\ DEFAULT_SETTINGS' = settings
    /\ last' = [NoLocals EXCEPT !.op = "DEFAULT_SETTINGS.write"]
    /\ UNCHANGED << socksOther, OVERWRITE_SETTINGS, CONFIG2, file_config2 >>

InitSocks == InitLoaded({"socks"}, {1}, {"i1"}, {""}, {EmptyMap}, {Text("")})

NextSocks ==
    \/ \E socks \in {None} \cup {Some(s) : s \in Socks5Servers} : Config_set_socks(socks)
    \/ Config_get_socks_call
    \/ Config_get_network_type_call
    \/ \E settings \in PartialMaps(ProxyKeys, {"u"}) : write_OVERWRITE_SETTINGS(settings)
    \/ \E settings \in PartialMaps(ProxyKeys, {"u"}) : write_DEFAULT_SETTINGS(settings)

SpecSocks == InitSocks /\ [][NextSocks]_vars

(***************************************************************************)
(* The order in which the operations take and drop the guards of the       *)
(* singletons and of the setting maps.  A guard bound by let is dropped at *)
(* the end of its block, a temporary guard at the end of its statement;    *)
(* the guards of one statement are dropped in the reverse order.           *)
(***************************************************************************)
\* the guards an operation takes and drops, in the order of its statements
LockProgram(op) ==
    CASE op = "Config::get_option" ->
           << << "read", "CONFIG2" >>, << "read", "OVERWRITE_SETTINGS" >>,
              << "read", "DEFAULT_SETTINGS" >>, << "drop", "DEFAULT_SETTINGS" >>,
              << "drop", "OVERWRITE_SETTINGS" >>, << "drop", "CONFIG2" >> >>
      [] op = "Config::get_socks" ->
           << << "read", "OVERWRITE_SETTINGS" >>, << "read", "CONFIG2" >>,
              << "read", "DEFAULT_SETTINGS" >>, << "drop", "DEFAULT_SETTINGS" >>,
              << "drop", "CONFIG2" >>, << "drop", "OVERWRITE_SETTINGS" >> >>
      [] op = "Config::set_permanent_password" ->
           << << "write", "CONFIG" >>, << "write", "CONFIG2" >>,
              << "write", "TRUSTED_DEVICES" >>, << "drop", "TRUSTED_DEVICES" >>,
              << "drop", "CONFIG2" >>, << "drop", "CONFIG" >> >>
      [] op = "Config::get_trusted_devices" ->
           << << "read", "TRUSTED_DEVICES" >>, << "drop", "TRUSTED_DEVICES" >>,
              << "read", "CONFIG2" >>, << "drop", "CONFIG2" >>,
              << "write", "CONFIG2" >>, << "write", "TRUSTED_DEVICES" >>,
              << "drop", "TRUSTED_DEVICES" >>, << "drop", "CONFIG2" >>,
              << "write", "TRUSTED_DEVICES" >>, << "drop", "TRUSTED_DEVICES" >> >>
      [] op = "Config::update_latency" ->
           << << "write", "ONLINE" >>, << "drop", "ONLINE" >>,
              << "write", "ONLINE" >>, << "drop", "ONLINE" >>,
              << "write", "CONFIG2" >>, << "write", "ONLINE" >>, << "drop", "ONLINE" >>,
              << "drop", "CONFIG2" >> >>
      [] op = "Config::reset_online" ->
           << << "write", "ONLINE" >>, << "drop", "ONLINE" >> >>
      [] op = "Config::set_nat_type" ->
           << << "write", "CONFIG2" >>, << "drop", "CONFIG2" >> >>
      [] op = "init_default_settings" ->
           << << "write", "DEFAULT_SETTINGS" >>, << "drop", "DEFAULT_SETTINGS" >> >>
      [] op = "OVERWRITE_SETTINGS.write" ->
           << << "write", "OVERWRITE_SETTINGS" >>, << "drop", "OVERWRITE_SETTINGS" >> >>

waitOther == << family, optVars, file_book, file_peer, NEW_STORED_PEER_CONFIG, keyVars, ONLINE,
               staticVars, STATUS, file_status, CONFIG, CONFIG2, LOCAL_CONFIG,
               USER_DEFAULT_CONFIG, TRUSTED_DEVICES, file_config, file_config2, file_local,
               file_default, now, last >>

\* thread u has called write() on lock l and has not returned from it
WriterWaits(u, l) ==
    /\ pc[u] = "locks"
    /\ loc[u].cached
    /\ Head(loc[u].stack) = << "write", l >>

\* RwLock::read returns when no write guard is held; whether it also waits for the
\* writers that wait is left to the platform: in the family writers_first it does
ReadAdmitted(l) ==
    /\ wlock[l] = 0
    /\ family = "writers_first" => ~\E u \in Threads : WriterWaits(u, l)

lock_call(t, op) ==
    /\ pc[t] = "idle"
    /\ pc' = [pc EXCEPT ![t] = "locks"]
    /\ loc' = [loc EXCEPT ![t] = [NoLocals EXCEPT !.op = op, !.stack = LockProgram(op)]]
    /\ UNCHANGED << waitOther, rlock, wlock >>

\* the call of write() or lock(): the thread is now among the writers that wait
lock_request(t) ==
    /\ pc[t] = "locks"
    /\ loc[t].stack # << >>
    /\ Head(loc[t].stack)[1] = "write"
    /\ ~loc[t].cached
    /\ loc' = [loc EXCEPT ![t].cached = TRUE]
    /\ UNCHANGED << waitOther, rlock, wlock, pc >>

\* read() or write() returns with the guard
lock_acquire(t) ==
    /\ pc[t] = "locks"
    /\ loc[t].stack # << >>
    /\ LET l == Head(loc[t].stack)[2] IN
       \/ /\ Head(loc[t].stack)[1] = "read"
          /\ ReadAdmitted(l)
          /\ rlock' = [rlock EXCEPT ![l] = @ \cup {t}]
          /\ UNCHANGED wlock
       \/ /\ Head(loc[t].stack)[1] = "write"
          /\ loc[t].cached
          /\ CanWrite(l)
          /\ wlock' = [wlock EXCEPT ![l] = t]
          /\ UNCHANGED rlock
    /\ loc' = [loc EXCEPT ![t].stack = Tail(@), ![t].cached = FALSE]
    /\ UNCHANGED << waitOther, pc >>

\* a guard goes out of scope
lock_drop(t) ==
    /\ pc[t] = "locks"
    /\ loc[t].stack # << >>
    /\ Head(loc[t].stack)[1] = "drop"
    /\ LET l == Head(loc[t].stack)[2] IN
       /\ rlock' = [rlock EXCEPT ![l] = @ \ {t}]
       /\ wlock' = [wlock EXCEPT ![l] = IF @ = t THEN 0 ELSE @]
    /\ loc' = [loc EXCEPT ![t].stack = Tail(@)]
    /\ UNCHANGED << waitOther, pc >>

lock_return(t) ==
    /\ pc[t] = "locks"
    /\ loc[t].stack = << >>
    /\ pc' = [pc EXCEPT ![t] = "idle"]
    /\ loc' = [loc EXCEPT ![t] = NoLocals]
    /\ UNCHANGED << waitOther, rlock, wlock >>

\* the operations of the library, and the writes of the host to the setting maps
LibraryOperations ==
    {"Config::get_option", "Config::get_socks", "Config::set_permanent_password",
     "Config::get_trusted_devices", "Config::update_latency"}

HostWrites ==
    {"Config::set_nat_type", "Config::reset_online", "init_default_settings",
     "OVERWRITE_SETTINGS.write"}

InitWait ==
    InitLoaded({"readers_pass", "writers_first"}, {1, 2, 3, 4}, {"i1"}, {""}, {EmptyMap},
               {Text("")})

NextWait ==
    \/ \E t \in {1, 2}, op \in LibraryOperations : lock_call(t, op)
    \/ \E t \in {3, 4}, op \in HostWrites : lock_call(t, op)
    \/ \E t \in Threads : lock_request(t)
    \/ \E t \in Threads : lock_acquire(t)
    \/ \E t \in Threads : lock_drop(t)
    \/ \E t \in Threads : lock_return(t)

SpecWait == InitWait /\ [][NextWait]_vars

(***************************************************************************)
(* Config::load, statement by statement.  It runs when CONFIG is first     *)
(* used after the process has started; between two runs the identity file  *)
(* may have been written by an installer or an older version.              *)
(***************************************************************************)
loadOther == << family, optVars, extVars, CONFIG2, LOCAL_CONFIG, USER_DEFAULT_CONFIG,
               TRUSTED_DEVICES, file_config2, file_local, file_default, now, wlock >>

\* let mut config = Config::load_::<Config>(""); ... the password, enc_id and the legacy id
\* up to `if !id_valid`
load_decide_TrustId(t) ==
    /\ pc[t] = "load_decide"
    /\ LET c == Config_load(file_config, None)
           trusted == c.id_valid \/ file_config.id # ""
       IN /\ loc' = [loc EXCEPT ![t].before = file_config, ![t].ret = c.config,
                                ![t].cached = c.store \/ trusted, ![t].seen = << >>]
          /\ pc' = [pc EXCEPT ![t] = IF trusted THEN "load_store" ELSE "load_gen"]
    /\ UNCHANGED << loadOther, CONFIG, file_config, last >>

load_decide(t) ==
    /\ pc[t] = "load_decide"
    /\ LET c == Config_load(file_config, None)
       IN /\ loc' = [loc EXCEPT ![t].before = file_config, ![t].ret = c.config,
                                ![t].cached = c.store, ![t].seen = << >>]
          /\ pc' = [pc EXCEPT ![t] = IF c.id_valid THEN "load_store" ELSE "load_gen"]
    /\ UNCHANGED << loadOther, CONFIG, file_config, last >>

\* for _ in 0..3 { if let Some(id) = Config::gen_id() { config.id = id; store = true; break; } }
\* one pass of the loop; gen is what Config::gen_id returns in this pass
load_gen(t, gen) ==
    /\ pc[t] = "load_gen"
    /\ LET seen == Append(loc[t].seen, gen)
       IN IF gen # None
          THEN /\ loc' = [loc EXCEPT ![t].seen = seen, ![t].cached = TRUE,
                                     ![t].ret = [@ EXCEPT !.id = gen[1]]]
               /\ pc' = [pc EXCEPT ![t] = "load_store"]
          ELSE /\ loc' = [loc EXCEPT ![t].seen = seen]
               /\ pc' = [pc EXCEPT ![t] = IF Len(seen) = 3 THEN "load_store" ELSE "load_gen"]
    /\ UNCHANGED << loadOther, CONFIG, file_config, last >>

\* if store { config.store(); } config
load_store(t) ==
    /\ pc[t] = "load_store"
    /\ file_config' = IF loc[t].cached THEN Config_store(loc[t].ret) ELSE file_config
    /\ CONFIG' = loc[t].ret
    /\ Return(t, loc[t])
    /\ UNCHANGED loadOther

\* static ref CONFIG: RwLock<Config> = RwLock::new(Config::load())
Config_load_call(t) == Call(t, "Config::load", << >>, "load_decide", << "done" >>)

\* the identity files a run may find
IdentityFiles ==
    {[Config_store(Config_default) EXCEPT !.id = id, !.enc_id = enc_id, !.password = password] :
        id \in {"", "i1", EncryptedI4},
        enc_id \in {Text(""), Text(EncryptedI4), Text("junk")},
        password \in {Text(""), Text("p1"), [Text("p1") EXCEPT !.ver = PASSWORD_ENC_VERSION]}}

\* the process is not running and the identity file is replaced
install(file) ==
    /\ AllIdle
    /\ file_config' = file
    /\ last' = NoLocals
    /\ UNCHANGED << loadOther, CONFIG, pc, loc >>

InitLoad == InitLoaded({"load"}, {1}, {"i1"}, {""}, {EmptyMap}, {Text("")})

NextLoad ==
    \/ load_decide(1)
    \/ \E gen \in GenIds : load_gen(1, gen)
    \/ load_store(1)
    \/ Config_load_call(1)
    \/ \E file \in IdentityFiles : install(file)

SpecLoad == InitLoad /\ [][NextLoad]_vars

(***************************************************************************)
(* The three loaders on files that an older version has written: the       *)
(* identity file, the network file and the peer files may hold secrets     *)
(* that are not encrypted.                                                 *)
(***************************************************************************)
\* static ref CONFIG2: RwLock<Config2> = RwLock::new(Config2::load())
Config2_load_call ==
    /\ AllIdle
    /\ LET c2 == Config2_load(file_config2) IN
       /\ CONFIG2' = c2.config
       /\ file_config2' = IF c2.store THEN Config2_store(c2.config) ELSE file_config2
       /\ last' = [NoLocals EXCEPT !.op = "Config2::load", !.before = file_config2,
                                   !.ret = c2.config, !.cached = c2.store]
    /\ TRUSTED_DEVICES' = << << >>, FALSE >>
    /\ UNCHANGED << trustedVars, CONFIG, file_config, now, wlock, pc, loc >>

\* the network files a run may find
NetworkFiles ==
    {[Config2_store(Config2_default) EXCEPT !.unlock_pin = unlock_pin, !.socks = socks] :
        unlock_pin \in {Text(""), Text("1234"), [Text("1234") EXCEPT !.ver = PASSWORD_ENC_VERSION],
                        Text(LongPassword)},
        socks \in {None, Some([password |-> Text("")]), Some([password |-> Text("p1")]),
                   Some([password |-> [Text("p1") EXCEPT !.ver = PASSWORD_ENC_VERSION]])}}

\* the process is not running and the network file is replaced
install2(file) ==
    /\ AllIdle
    /\ file_config2' = file
    /\ last' = NoLocals
    /\ UNCHANGED << trustedVars, CONFIG, CONFIG2, TRUSTED_DEVICES, file_config, now, wlock,
                    pc, loc >>

InitMigrate ==
    InitLoaded({"migrate_identity", "migrate_network", "migrate_peer"}, {1}, {"i1"}, {""},
               {EmptyMap}, {Text("")})

NextMigrate ==
    \/ family = "migrate_identity" /\ NextLoad
    \/ family = "migrate_network" /\ Config2_load_call
    \/ family = "migrate_network" /\ \E file \in NetworkFiles : install2(file)
    \/ \E id \in PeerIds, cfg \in PeerValues, ok \in BOOLEAN : PeerConfig_store(id, cfg, ok)
    \/ \E id \in PeerIds, read_ok \in BOOLEAN, ok \in BOOLEAN : PeerConfig_load(id, read_ok, ok)

SpecMigrate == InitMigrate /\ [][NextMigrate]_vars

(***************************************************************************)
(* Address book and group book: JSON -> compress -> symmetric_crypt -> file *)
(***************************************************************************)
\* the bytes of a file: crypt when symmetric_crypt(.., true) produced them, zip when
\* compress produced what was encrypted, text the JSON text inside
Bytes(crypt, zip, text) == [exists |-> TRUE, crypt |-> crypt, zip |-> zip, text |-> text]

\* a file of length 0
EmptyBytes == Bytes(FALSE, FALSE, "")

\* the texts handed to store: two books, a book whose compressed form passes the
\* limit, and a text that is no JSON
Jsons == {"ab1", "ab2", "big", "bad"}

\* let max_len = 64 * 1024 * 1024;
BookMaxLen == 64 * 1024 * 1024

\* compress(json.as_bytes()).len()
compress_len(json) == IF json = "big" THEN BookMaxLen + 1 ELSE Len(json)

\* symmetric_crypt(&data, false) is Ok
symmetric_crypt_ok(bytes) == bytes.crypt

\* decompress(&data): the text that was compressed, nothing for other bytes
decompress(bytes) == IF bytes.zip THEN bytes.text ELSE ""

\* serde_json::from_str::<Ab>(..) is Ok
from_str_ok(text) == text \in {"ab1", "ab2", "big"}

\* Ab::default(), Group::default()
BookDefault == "default"

\* File::create truncates; an oversize blob returns before anything is written
Book_store(book, json, created) ==
    /\ family = "book"
    /\ IF ~created
       THEN UNCHANGED file_book
       ELSE IF compress_len(json) > BookMaxLen
       THEN file_book' = [file_book EXCEPT ![book] = EmptyBytes]
       ELSE file_book' = [file_book EXCEPT ![book] = Bytes(TRUE, TRUE, json)]
    /\ last' = [op |-> "store", book |-> book, json |-> json, created |-> created,
                old |-> file_book[book]]
    /\ UNCHANGED << family, optVars, staticVars, statusVars, CONFIG, CONFIG2, LOCAL_CONFIG, USER_DEFAULT_CONFIG,
                    TRUSTED_DEVICES, file_config, file_config2, file_local, file_default,
                    file_peer, NEW_STORED_PEER_CONFIG, keyVars, ONLINE, now, wlock, pc, loc >>

\* the file is left in place when the chain fails
Book_load_NoRemove(book, read_ok) ==
    /\ family = "book"
    /\ LET file == file_book[book]
           good == /\ file.exists
                   /\ read_ok
                   /\ symmetric_crypt_ok(file)
                   /\ from_str_ok(decompress(file))
       IN
       /\ last' = [op |-> "load", book |-> book, read_ok |-> read_ok, old |-> file,
                   ret |-> IF good THEN decompress(file) ELSE BookDefault]
       /\ UNCHANGED file_book
    /\ UNCHANGED << family, optVars, staticVars, statusVars, CONFIG, CONFIG2, LOCAL_CONFIG, USER_DEFAULT_CONFIG,
                    TRUSTED_DEVICES, file_config, file_config2, file_local, file_default,
                    file_peer, NEW_STORED_PEER_CONFIG, keyVars, ONLINE, now, wlock, pc, loc >>

\* open, read_to_end, symmetric_crypt(.., false), decompress, from_str; else remove
Book_load(book, read_ok) ==
    /\ family = "book"
    /\ LET file == file_book[book]
           good == /\ file.exists
                   /\ read_ok
                   /\ symmetric_crypt_ok(file)
                   /\ from_str_ok(decompress(file))
       IN
       IF good
       THEN /\ last' = [op |-> "load", book |-> book, read_ok |-> read_ok, old |-> file,
                        ret |-> decompress(file)]
            /\ UNCHANGED file_book
       ELSE /\ last' = [op |-> "load", book |-> book, read_ok |-> read_ok, old |-> file,
                        ret |-> BookDefault]
            /\ file_book' = [file_book EXCEPT ![book] = NoFile]
    /\ UNCHANGED << family, optVars, staticVars, statusVars, CONFIG, CONFIG2, LOCAL_CONFIG, USER_DEFAULT_CONFIG,
                    TRUSTED_DEVICES, file_config, file_config2, file_local, file_default,
                    file_peer, NEW_STORED_PEER_CONFIG, keyVars, ONLINE, now, wlock, pc, loc >>

Ab_store(json, created) == Book_store("ab", json, created)

Ab_load(read_ok) == Book_load("ab", read_ok)

Group_store(json, created) == Book_store("group", json, created)

Group_load(read_ok) == Book_load("group", read_ok)

\* the files found at start: none, one written by the program, one that is not the
\* output of symmetric_crypt, one whose plaintext is not the output of compress
InitBookFiles == {NoFile, Bytes(TRUE, TRUE, "ab1"), Bytes(FALSE, FALSE, "ab1"),
                  Bytes(TRUE, FALSE, "ab1")}

InitBook ==
    /\ family = "book"
    /\ OVERWRITE_SETTINGS = EmptyMap
    /\ DEFAULT_SETTINGS = EmptyMap
    /\ OVERWRITE_LOCAL_SETTINGS = EmptyMap
    /\ DEFAULT_LOCAL_SETTINGS = EmptyMap
    /\ OVERWRITE_DISPLAY_SETTINGS = EmptyMap
    /\ DEFAULT_DISPLAY_SETTINGS = EmptyMap
    /\ HARD_SETTINGS = EmptyMap
    /\ CONFIG = Config_default
    /\ file_config = Config_store(CONFIG)
    /\ CONFIG2 = Config2_default
    /\ file_config2 = Config2_store(CONFIG2)
    /\ LOCAL_CONFIG = LocalConfig_default
    /\ file_local = LocalConfig_store(LOCAL_CONFIG)
    /\ file_default = [options |-> EmptyMap]
    /\ USER_DEFAULT_CONFIG = UserDefaultConfig_load
    /\ TRUSTED_DEVICES = << << >>, FALSE >>
    /\ file_book \in [{"ab", "group"} -> InitBookFiles]
    /\ file_peer = [id \in PeerIds |-> NoPeerFile]
    /\ NEW_STORED_PEER_CONFIG = {}
    /\ KEY_PAIR = [lock |-> 0, slot |-> None]
    /\ spawned = {}
    /\ observed = [gen_keypair |-> 0, returned |-> << >>]
    /\ ONLINE = EmptyMap
    /\ StaticInit
    /\ STATUS = EmptyMap
    /\ file_status = EmptyMap
    /\ rlock = [l \in Locks |-> {}]
    /\ now = 0
    /\ wlock = [l \in Locks |-> 0]
    /\ pc = << >>
    /\ loc = << >>
    /\ last = NoCall

NextBook ==
    \/ \E json \in Jsons, created \in BOOLEAN : Ab_store(json, created)
    \/ \E read_ok \in BOOLEAN : Ab_load(read_ok)
    \/ \E json \in Jsons, created \in BOOLEAN : Group_store(json, created)
    \/ \E read_ok \in BOOLEAN : Group_load(read_ok)

SpecBook == InitBook /\ [][NextBook]_vars

(***************************************************************************)
(* Claims about the option resolver                                        *)
(***************************************************************************)
Precedence(overwrite, stored, defaults, k) ==
    IF k \in DOMAIN overwrite THEN overwrite[k]
    ELSE IF k \in DOMAIN stored THEN stored[k]
    ELSE IF k \in DOMAIN defaults THEN defaults[k]
    ELSE ""

Suppressed(overwrite, defaults, k, v) ==
    k \in DOMAIN overwrite \/ (k \in DOMAIN defaults /\ defaults[k] = v)

\* C1: in each option family a lookup of key k returns OVERWRITE[k] if present,
\* else the stored value if present, else DEFAULT[k] if present, else the empty
\* string (UserDefaultConfig::read for the keys it does not validate).
C1_Precedence ==
    /\ last.op = "Config::get_option" =>
         last.ret = Precedence(OVERWRITE_SETTINGS, CONFIG2.options, DEFAULT_SETTINGS, last.k)
    /\ last.op = "LocalConfig::get_option" =>
         last.ret = Precedence(OVERWRITE_LOCAL_SETTINGS, LOCAL_CONFIG.options,
                               DEFAULT_LOCAL_SETTINGS, last.k)
    /\ (last.op = "UserDefaultConfig::read" /\ last.k # OPTION_VIEW_STYLE) =>
         last.ret = Precedence(OVERWRITE_DISPLAY_SETTINGS, USER_DEFAULT_CONFIG.options,
                               DEFAULT_DISPLAY_SETTINGS, last.k)

C1_Witness ==
    /\ last.op = "Config::get_option"
    /\ last.k \in DOMAIN OVERWRITE_SETTINGS
    /\ last.k \in DOMAIN CONFIG2.options
    /\ last.k \in DOMAIN DEFAULT_SETTINGS
    /\ OVERWRITE_SETTINGS[last.k] # CONFIG2.options[last.k]
    /\ last.ret = OVERWRITE_SETTINGS[last.k]

\* C2 as stated: whenever is_option_can_save(OVERWRITE, k, DEFAULT, v) is true,
\* get_option(k) = v right after set_option(k, v), for every v.
C2_Original ==
    /\ (last.op = "Config::set_option"
        /\ is_option_can_save(OVERWRITE_SETTINGS, last.k, DEFAULT_SETTINGS, last.v))
       => Config_get_option(last.k) = last.v
    /\ (last.op = "LocalConfig::set_option"
        /\ is_option_can_save(OVERWRITE_LOCAL_SETTINGS, last.k, DEFAULT_LOCAL_SETTINGS, last.v))
       => LocalConfig_get_option(last.k) = last.v

\* C2 amended: when is_option_can_save is true, set_option(k, v) with a non-empty v
\* makes get_option(k) = v, except LocalConfig::set_option("lang", "default"), which
\* stores the empty string so that get_option("lang") = ""; with an empty v the key
\* is removed and get_option(k) is DEFAULT[k] if present, else the empty string.
C2_SetThenGet ==
    /\ (last.op = "Config::set_option"
        /\ is_option_can_save(OVERWRITE_SETTINGS, last.k, DEFAULT_SETTINGS, last.v))
       => Config_get_option(last.k) =
            IF last.v # "" THEN last.v
            ELSE UnwrapOrDefault(MapGet(DEFAULT_SETTINGS, last.k))
    /\ (last.op = "LocalConfig::set_option"
        /\ is_option_can_save(OVERWRITE_LOCAL_SETTINGS, last.k, DEFAULT_LOCAL_SETTINGS, last.v))
       => LocalConfig_get_option(last.k) =
            IF last.k = OPTION_LANGUAGE /\ last.v = "default" THEN ""
            ELSE IF last.v # "" THEN last.v
            ELSE UnwrapOrDefault(MapGet(DEFAULT_LOCAL_SETTINGS, last.k))

C2_Witness ==
    /\ last.op = "Config::set_option"
    /\ is_option_can_save(OVERWRITE_SETTINGS, last.k, DEFAULT_SETTINGS, last.v)
    /\ last.v = ""
    /\ last.k \in DOMAIN DEFAULT_SETTINGS
    /\ Config_get_option(last.k) = DEFAULT_SETTINGS[last.k]

\* C3: set_option(k, v) with k in OVERWRITE, or with DEFAULT[k] = v, changes neither
\* the stored option map nor the file, and get_option(k) returns what it returned
\* before the call.
C3_SuppressedWrite ==
    [][ /\ (last'.op = "Config::set_option"
            /\ Suppressed(OVERWRITE_SETTINGS, DEFAULT_SETTINGS, last'.k, last'.v))
           => /\ CONFIG2' = CONFIG2
              /\ file_config2' = file_config2
              /\ UnwrapOrDefault(get_or(OVERWRITE_SETTINGS', CONFIG2'.options,
                                        DEFAULT_SETTINGS', last'.k))
                   = Config_get_option(last'.k)
        /\ (last'.op = "LocalConfig::set_option"
            /\ Suppressed(OVERWRITE_LOCAL_SETTINGS, DEFAULT_LOCAL_SETTINGS, last'.k, last'.v))
           => /\ LOCAL_CONFIG' = LOCAL_CONFIG
              /\ file_local' = file_local
              /\ UnwrapOrDefault(get_or(OVERWRITE_LOCAL_SETTINGS', LOCAL_CONFIG'.options,
                                        DEFAULT_LOCAL_SETTINGS', last'.k))
                   = LocalConfig_get_option(last'.k)
        /\ (last'.op = "UserDefaultConfig::set"
            /\ Suppressed(OVERWRITE_DISPLAY_SETTINGS, DEFAULT_DISPLAY_SETTINGS,
                          last'.k, last'.v))
           => /\ USER_DEFAULT_CONFIG' = USER_DEFAULT_CONFIG
              /\ file_default' = file_default
      ]_vars

C3_Witness ==
    /\ last.op = "Config::set_option"
    /\ last.k \in DOMAIN OVERWRITE_SETTINGS
    /\ last.k \in DOMAIN CONFIG2.options
    /\ CONFIG2.options[last.k] # last.v
    /\ OVERWRITE_SETTINGS[last.k] # last.v
    /\ Config_get_option(last.k) = OVERWRITE_SETTINGS[last.k]

Purified(m) ==
    [x \in {k \in DOMAIN m :
              /\ k \notin DOMAIN OVERWRITE_SETTINGS
              /\ ~(k \in DOMAIN DEFAULT_SETTINGS /\ DEFAULT_SETTINGS[k] = m[k])} |-> m[x]]

\* C4: after Config::set_options(m) the stored options are exactly the entries (k, v)
\* of m with k not in OVERWRITE_SETTINGS and DEFAULT_SETTINGS[k] # v; a map whose
\* entries are all shadowed or default-equal leaves the stored map empty.
C4_SetOptionsPurified ==
    last.op = "Config::set_options" =>
        /\ CONFIG2.options = Purified(last.m)
        /\ file_config2.options = Purified(last.m)

C4_Witness ==
    /\ last.op = "Config::set_options"
    /\ Cardinality(DOMAIN last.m) = 2
    /\ \E k \in DOMAIN last.m : k \in DOMAIN OVERWRITE_SETTINGS
    /\ \E k \in DOMAIN last.m :
          /\ k \notin DOMAIN OVERWRITE_SETTINGS
          /\ k \in DOMAIN DEFAULT_SETTINGS
          /\ DEFAULT_SETTINGS[k] = last.m[k]
    /\ CONFIG2.options = EmptyMap

\* C5: Config::get_options() has the keys of DEFAULT_SETTINGS, CONFIG2.options and
\* OVERWRITE_SETTINGS together, and maps each of them to Config::get_option of it.
C5_GetOptionsAgrees ==
    last.op = "Config::get_options" =>
        /\ DOMAIN last.ret =
             DOMAIN DEFAULT_SETTINGS \cup DOMAIN CONFIG2.options \cup DOMAIN OVERWRITE_SETTINGS
        /\ \A k \in DOMAIN last.ret : last.ret[k] = Config_get_option(k)

C5_Witness ==
    /\ last.op = "Config::get_options"
    /\ \E k \in DOMAIN last.ret :
          /\ k \in DOMAIN OVERWRITE_SETTINGS
          /\ k \in DOMAIN CONFIG2.options
          /\ k \in DOMAIN DEFAULT_SETTINGS
          /\ OVERWRITE_SETTINGS[k] # CONFIG2.options[k]
    /\ \E k \in DOMAIN last.ret :
          k \notin DOMAIN OVERWRITE_SETTINGS /\ k \in DOMAIN CONFIG2.options

(***************************************************************************)
(* Claims about the identity, the network record and the trusted devices   *)
(***************************************************************************)
Elems(devs) == {devs[i] : i \in 1..Len(devs)}

HwidCount(devs, hwid) == Cardinality({i \in 1..Len(devs) : devs[i].hwid = hwid})

\* C6 (as claimed): a getter never returns a value older than the one the file holds
\* at the moment of the read.  Memory never runs ahead of a file a reader can see (the
\* write guard is held until the store is done), so a returned value that differs from
\* the file is an older one.  Claimed for get_trusted_devices and for Config::get
\* against set_id.
C6_Original ==
    /\ last.op = "Config::get_trusted_devices" => last.ret = FileDevices(last.seen)
    /\ last.op = "Config::get" => last.ret.id = FileId(last.seen)

\* C7: Config::set(cfg) and Config2::set(cfg) return true, replace the singleton and
\* store it when cfg differs from the current singleton; when cfg equals it they
\* return false and neither the singleton nor the file changes.
C7_SetIffDiffers ==
    (AllIdle /\ last.op \in {"Config::set", "Config2::set"}) =>
        LET identity == last.op = "Config::set"
            cfg == last.arg
            before == IF identity THEN last.old[1] ELSE last.old[2]
            file_before == IF identity THEN last.old[4] ELSE last.old[5]
            current == IF identity THEN CONFIG ELSE CONFIG2
            file == IF identity THEN file_config ELSE file_config2
            stored == IF identity THEN Config_store(cfg) ELSE Config2_store(cfg)
        IN IF cfg # before
           THEN last.ret = TRUE /\ current = cfg /\ file = stored
           ELSE last.ret = FALSE /\ current = before /\ file = file_before

\* a Config::set with a record that differs has returned true and rewritten the file
C7_Witness ==
    /\ AllIdle
    /\ last.op = "Config::set"
    /\ last.ret = TRUE
    /\ last.arg # last.old[1]
    /\ file_config # last.old[4]

\* what C8 promises of the list after add_trusted_device(d)
AddedAndKept ==
    /\ last.arg \in Elems(TrustedDevicesNow)
    /\ HwidCount(TrustedDevicesNow, last.arg.hwid) = 1
    /\ \A e \in Elems(last.before) :
         (e.hwid # last.arg.hwid /\ ~outdate(e)) => e \in Elems(TrustedDevicesNow)

\* C8 (as claimed): after add_trusted_device(d) for a device d not older than 90 days,
\* get_trusted_devices() contains d, contains exactly one entry with d.hwid, and every
\* non-expired entry with another hardware id that was present before is still present.
C8_Original ==
    (AllIdle /\ last.op = "Config::add_trusted_device" /\ ~outdate(last.arg)) => AddedAndKept

\* the list add_trusted_device(d) hands to set_trusted_devices, no entry dropped
ListToWrite == Append(SelectSeq(last.before, LAMBDA e : e.hwid # last.arg.hwid), last.arg)

\* C8 (amended): the same, provided the prior list with d in the place of the entry of
\* its hardware id serializes to at most 1 MiB.
C8_AddWithinLimit ==
    (/\ AllIdle
     /\ last.op = "Config::add_trusted_device"
     /\ ~outdate(last.arg)
     /\ JsonLen(ListToWrite) <= TrustedDevicesMaxLen) => AddedAndKept

\* an add has replaced the entry of its hardware id and kept an entry of another one
C8_Witness ==
    /\ AllIdle
    /\ last.op = "Config::add_trusted_device"
    /\ ~outdate(last.arg)
    /\ JsonLen(ListToWrite) <= TrustedDevicesMaxLen
    /\ \E e \in Elems(last.before) : e.hwid = last.arg.hwid /\ e # last.arg
    /\ \E e \in Elems(last.before) : e.hwid # last.arg.hwid /\ ~outdate(e)
    /\ last.arg \in Elems(TrustedDevicesNow)

\* C9 (as claimed): get_trusted_devices() returns no device whose timestamp is more
\* than 90 days before the time of the call, also when it answers from the synchronized
\* cache, and when it drops entries the pruned list is the one in the network record.
C9_Original ==
    (AllIdle /\ last.op = "Config::get_trusted_devices") =>
        /\ \A d \in Elems(last.ret) : ~(d.time + DAYS_90 < last.at)
        /\ last.dropped => FileDevices(CONFIG2) = last.ret

\* C10 (as claimed): once set_permanent_password or Config::set has changed the
\* permanent password, get_trusted_devices() returns the empty list; when the password
\* is not changed the list is as before the call.
C10_Original ==
    (AllIdle /\ last.op \in {"Config::set_permanent_password", "Config::set"}) =>
        IF CONFIG.password # last.old[1].password
        THEN TrustedDevicesNow = << >>
        ELSE /\ CONFIG2.trusted_devices = last.old[2].trusted_devices
             /\ TRUSTED_DEVICES = last.old[3]

\* the devices of the list add_trusted_device wrote that were fresh at the call
FreshListToWrite == SelectSeq(ListToWrite, LAMBDA e : ~(e.time + DAYS_90 < last.at))

\* C11: a trusted-devices write whose JSON serialization exceeds 1 MiB is refused as a
\* whole: CONFIG2.trusted_devices, the network file and the TRUSTED_DEVICES cache are as
\* the refused call found them, and the next get_trusted_devices() returns the prior list.
C11_OversizeRefused ==
    (/\ AllIdle
     /\ last.op = "Config::add_trusted_device"
     /\ JsonLen(FreshListToWrite) > TrustedDevicesMaxLen) =>
        /\ last.old = << CONFIG, CONFIG2, TRUSTED_DEVICES, file_config, file_config2 >>
        /\ TrustedDevicesNow = last.before

\* an add of a device with a 1 MiB name to a list that is not empty has been refused
C11_Witness ==
    /\ AllIdle
    /\ last.op = "Config::add_trusted_device"
    /\ JsonLen(FreshListToWrite) > TrustedDevicesMaxLen
    /\ last.before # << >>
    /\ TrustedDevicesNow = last.before

(***************************************************************************)
(* Claims about the address book and the group book                        *)
(***************************************************************************)
\* the value a load of the file yields
BookValue(file) ==
    IF file.exists /\ symmetric_crypt_ok(file) /\ from_str_ok(decompress(file))
    THEN decompress(file) ELSE BookDefault

\* C12 (as claimed): Ab::store and Group::store of a JSON whose compressed size exceeds
\* 64 MiB are without effect: a file stored before is as before the call and a
\* following load returns the value stored before.
C12_Original ==
    (/\ last.op = "store"
     /\ compress_len(last.json) > BookMaxLen
     /\ last.old.exists
     /\ symmetric_crypt_ok(last.old)) =>
        /\ file_book[last.book] = last.old
        /\ BookValue(file_book[last.book]) = BookValue(last.old)

\* C13: Ab::load and Group::load return the stored value only if reading, decrypting,
\* decompressing and parsing all succeed, and then leave the file; if a step fails they
\* delete the file and return the default value, and so does a following load.
C13_LoadOrDelete ==
    last.op = "load" =>
        LET file == last.old
            good == /\ file.exists
                    /\ last.read_ok
                    /\ file.crypt
                    /\ file.zip
                    /\ file.text \in {"ab1", "ab2", "big"}
        IN IF good
           THEN last.ret = file.text /\ file_book[last.book] = file
           ELSE /\ last.ret = BookDefault
                /\ ~file_book[last.book].exists
                /\ BookValue(file_book[last.book]) = BookDefault

\* a load has found a file that is not the output of the chain, and removed it
C13_Witness ==
    /\ last.op = "load"
    /\ last.old.exists
    /\ ~(last.old.crypt /\ last.old.zip)
    /\ last.ret = BookDefault
    /\ ~file_book[last.book].exists

(***************************************************************************)
(* Claims about the stored identity and network record                     *)
(***************************************************************************)
\* C14 (as claimed): every identity file written by Config::store has an empty id
\* field and carries the id only as ciphertext in enc_id.
C14_Original ==
    [][file_config' # file_config =>
         /\ file_config'.id = ""
         /\ file_config'.enc_id = [ver |-> PASSWORD_ENC_VERSION, s |-> CONFIG'.id,
                                   devs |-> << >>]]_vars

\* C14 (amended): every identity file written by Config::store has an empty id field
\* and carries the id in enc_id, as ciphertext when the id has at most 128 bytes and
\* as it is when it is longer.
C14_IdOnlyInEncId ==
    [][file_config' # file_config =>
         /\ file_config'.id = ""
         /\ file_config'.enc_id =
              [ver |-> IF Len(CONFIG'.id) <= ENCRYPT_MAX_LEN
                       THEN PASSWORD_ENC_VERSION ELSE "",
               s |-> CONFIG'.id, devs |-> << >>]]_vars

\* set_id has stored an id that differs from the one before
C14_Witness ==
    /\ AllIdle
    /\ last.op = "Config::set_id"
    /\ CONFIG.id = last.arg
    /\ file_config.id = ""
    /\ file_config.enc_id = [ver |-> PASSWORD_ENC_VERSION, s |-> last.arg, devs |-> << >>]

(***************************************************************************)
(* Claims about store and load of the identity, the network record and     *)
(* the peers                                                               *)
(***************************************************************************)
\* C15: loading the file that store(v) produced gives v back: after a restart on the
\* files stored from CONFIG and CONFIG2, the id, password, salt, unlock PIN and SOCKS
\* password are the ones held before; PeerConfig::load on the file stored from a peer
\* record returns that record.
C15_Original ==
    /\ (/\ last.op = "restart"
        /\ last.old[4] = Config_store(last.old[1])
        /\ last.old[5] = Config2_store(last.old[2]))
       => /\ CONFIG.id = last.old[1].id
          /\ CONFIG.password = last.old[1].password
          /\ CONFIG.salt = last.old[1].salt
          /\ CONFIG2.unlock_pin = last.old[2].unlock_pin
          /\ CONFIG2.socks = last.old[2].socks
    /\ (last.op = "PeerConfig::load" /\ last.arg[2])
       => \A v \in PeerValues : last.old = Some(PeerConfig_store_(v)) => last.ret = v

\* the stored text t is the plaintext only when the plaintext is above ENCRYPT_MAX_LEN
Hidden(t) == t.ver = "" => StrLen(t) > ENCRYPT_MAX_LEN

\* the secrets of a written file are hidden: the identity file, the network file
\* without its trusted devices, a peer file
SecretsHidden ==
    /\ file_config' # file_config
       => Hidden(file_config'.password) /\ Hidden(file_config'.enc_id)
    /\ file_config2' # file_config2
       => /\ Hidden(file_config2'.unlock_pin)
          /\ file_config2'.socks # None => Hidden(file_config2'.socks[1].password)
    /\ \A id \in PeerIds :
         (file_peer'[id] # file_peer[id] /\ file_peer'[id] # NoPeerFile)
         => /\ Hidden(file_peer'[id][1].password)
            /\ \A opt \in DOMAIN file_peer'[id][1].options \cap PeerSecretOptions :
                  Hidden(file_peer'[id][1].options[opt])

C17_OneKeyPair ==
    /\ observed.gen_keypair <= 1
    /\ \A i, j \in DOMAIN observed.returned : observed.returned[i] = observed.returned[j]

\* the key pair was generated, every call of the run has returned, and the spawned
\* thread has stored the key pair
C17_Witness ==
    /\ observed.gen_keypair = 1
    /\ Len(observed.returned) = MaxCalls
    /\ spawned = {}
    /\ file_config.key_pair = 1

\* C18: the listing recovers, from the file name PeerConfig::path made for an id, exactly
\* that id: every stored peer is listed under its id with its path.
C18_Original ==
    last.op = "PeerConfig::get_vec_id_modified_time_path"
    => \A id \in PathIds :
         PeerConfig_path(id) \in DOMAIN file_peer => << id, PeerConfig_path(id) >> \in last.ret

\* the last call is batch_peers(all, from, None)
BatchCall == last.op = "PeerConfig::batch_peers" /\ last.arg[3] = None

\* it loaded all[from .. min(from + 100, len)], at most 100 entries, and returned
\* min(from + 100, len)
BatchLoaded ==
    LET all == last.arg[1]
        from == last.arg[2]
        to == Min(from + BATCH_LOADING_COUNT, Len(all))
    IN /\ last.before = SubSeq(all, from + 1, to)
       /\ Len(last.before) <= BATCH_LOADING_COUNT
       /\ last.ret[2] = to
       /\ from < Len(all) => last.ret[2] > from

\* a caller that went from 0 to the length of the listing has loaded every entry once
BatchChain ==
    (last.arg[4] /\ last.ret[2] = Len(last.arg[1])) => last.seen = last.arg[1]

\* C19 as stated: every call batch_peers(all, from, None) loads
\* all[from .. min(from + 100, len)] and returns min(from + 100, len).
C19_Original == BatchCall => BatchLoaded /\ BatchChain

\* C19: a call batch_peers(all, from, None) with from < len loads
\* all[from .. min(from + 100, len)], at most 100 entries, and returns
\* min(from + 100, len) > from; with from >= len it loads nothing and returns 0; a
\* caller that starts at 0 and feeds each returned index back loads every entry once
\* and reaches len after finitely many calls.
C19_Batches ==
    /\ [](BatchCall =>
            /\ last.arg[2] < Len(last.arg[1]) => BatchLoaded
            /\ last.arg[2] >= Len(last.arg[1]) => last.before = << >> /\ last.ret[2] = 0
            /\ BatchChain)
    /\ (BatchCall /\ last.arg[4]) ~> (BatchCall /\ last.ret[2] = Len(last.arg[1]))

\* a caller has gone through 250 entries in three calls
C19_Witness ==
    /\ BatchCall
    /\ last.arg[4]
    /\ last.arg[2] = 2 * BATCH_LOADING_COUNT
    /\ Len(last.arg[1]) = MaxPeers
    /\ last.ret[2] = MaxPeers
    /\ last.seen = last.arg[1]

\* host h has the least latency among the hosts P of ONLINE
Least(h, P) == h \in P /\ \A g \in P : ONLINE[h] <= ONLINE[g]

\* update_latency changed at most the rendezvous server, and the file only with it
OnlyRendezvousServer ==
    /\ CONFIG2 = [last.old[2] EXCEPT !.rendezvous_server = CONFIG2.rendezvous_server]
    /\ CONFIG2 = last.old[2] => file_config2 = last.old[5]
    /\ CONFIG2 # last.old[2] => file_config2 = Config2_store(CONFIG2)

\* C20 as stated: after update_latency, if some host has a positive latency the
\* rendezvous server is a host of least positive latency, else the record is unchanged.
C20_Original ==
    last.op = "Config::update_latency"
    => LET P == {h \in DOMAIN ONLINE : ONLINE[h] > 0} IN
       /\ OnlyRendezvousServer
       /\ P # {} => Least(CONFIG2.rendezvous_server, P)
       /\ P = {} => CONFIG2 = last.old[2] /\ file_config2 = last.old[5]

\* C20: after update_latency with no concurrent call, with P the hosts whose latency is
\* positive and below i64::MAX: if P is not empty and the empty host name is not a host
\* of least latency in P, the rendezvous server is a host of least latency in P, and the
\* file is written only if the server changed; if P is empty the record is unchanged.
C20_MinLatency ==
    last.op = "Config::update_latency"
    => LET P == {h \in DOMAIN ONLINE : ONLINE[h] > 0 /\ ONLINE[h] < I64_MAX} IN
       /\ OnlyRendezvousServer
       /\ (P # {} /\ ~Least("", P)) => Least(CONFIG2.rendezvous_server, P)
       /\ P = {} => CONFIG2 = last.old[2] /\ file_config2 = last.old[5]

\* host b got the least latency and replaced host a as the rendezvous server
C20_Witness ==
    /\ last.op = "Config::update_latency"
    /\ last.arg = << "b", 1 >>
    /\ "a" \in DOMAIN ONLINE /\ ONLINE["a"] = 2
    /\ last.old[2].rendezvous_server = "a"
    /\ CONFIG2.rendezvous_server = "b"
    /\ file_config2.rendezvous_server = "b"

\* the first non-empty string of a list of strings, the empty string if there is none
RECURSIVE FirstNonEmpty(_)
FirstNonEmpty(ss) ==
    IF ss = << >> THEN << >>
    ELSE IF Head(ss) # << >> THEN Head(ss) ELSE FirstNonEmpty(Tail(ss))

WithPort(s) == IF contains(s, ":") THEN s ELSE s \o << ":" >> \o RENDEZVOUS_PORT

\* the entries of the rendezvous-servers option that contain a dot
DottedServers ==
    filter_contains(split(IF "rendezvous-servers" \in DOMAIN CONFIG2.options
                          THEN CONFIG2.options["rendezvous-servers"] ELSE << >>, ","), ".")

CustomServer ==
    IF "custom-rendezvous-server" \in DOMAIN CONFIG2.options
    THEN CONFIG2.options["custom-rendezvous-server"] ELSE << >>

\* C21 as stated: Config::get_rendezvous_server returns the first non-empty of
\* EXE_RENDEZVOUS_SERVER, the custom-rendezvous-server option, PROD_RENDEZVOUS_SERVER,
\* CONFIG2.rendezvous_server and the first built-in server, with the default port appended
\* when the value carries none.
C21_Original ==
    last.op = "Config::get_rendezvous_server" =>
       last.ret = WithPort(FirstNonEmpty(<< EXE_RENDEZVOUS_SERVER, CustomServer,
                                            PROD_RENDEZVOUS_SERVER, CONFIG2.rendezvous_server,
                                            RENDEZVOUS_SERVERS[1] >>))

\* C21: Config::get_rendezvous_server returns the first non-empty of EXE_RENDEZVOUS_SERVER,
\* the custom-rendezvous-server option, PROD_RENDEZVOUS_SERVER, CONFIG2.rendezvous_server
\* and then, when the stored serial is above SERIAL and the rendezvous-servers option has
\* entries that contain a dot, the first such entry, otherwise the first built-in server;
\* ":2116" is appended when the value contains no colon.
C21_RendezvousServer ==
    last.op = "Config::get_rendezvous_server" =>
       last.ret = WithPort(FirstNonEmpty(<< EXE_RENDEZVOUS_SERVER, CustomServer,
                                            PROD_RENDEZVOUS_SERVER, CONFIG2.rendezvous_server,
                                            IF CONFIG2.serial > SERIAL /\ DottedServers # << >>
                                            THEN DottedServers[1]
                                            ELSE RENDEZVOUS_SERVERS[1] >>))

\* the four sources are empty, the serial is above SERIAL, and the second entry of the
\* option is the first that contains a dot: that entry is returned with the port
C21_Witness ==
    /\ last.op = "Config::get_rendezvous_server"
    /\ EXE_RENDEZVOUS_SERVER = << >> /\ PROD_RENDEZVOUS_SERVER = << >>
    /\ CustomServer = << >> /\ CONFIG2.rendezvous_server = << >>
    /\ CONFIG2.serial = SERIAL + 1
    /\ DottedServers = << << "a", ".", "b" >> >>
    /\ split(CONFIG2.options["rendezvous-servers"], ",")[1] = << "x" >>
    /\ last.ret = << "a", ".", "b", ":", "2", "1", "1", "6" >>


PeerDecoded == last.op = "toml::from_str::<PeerConfig>"

NetworkDecoded == last.op = "toml::from_str::<Config2>"

\* the value of key k in the decoded document when it has type t, else None
Typed(k, t) ==
    LET doc == last.arg[1] IN
    IF k \in DOMAIN doc /\ doc[k].t = t
    THEN Some(CASE t = "int" -> doc[k].n [] t = "str" -> doc[k].s [] t = "array" -> doc[k].a
                [] t = "table" -> doc[k].m)
    ELSE None

\* what a tolerant decoder gives for a field: the valid value, else the default
Tolerant(value, valid, default) == IF value # None /\ valid THEN value[1] ELSE default

\* C22 as stated: every document decodes successfully, each recognized field has its
\* value when that is valid and its default otherwise, unrecognized fields are skipped;
\* this includes trackpad-speed and custom_image_quality of a peer and the socks table.
C22_Original ==
    /\ PeerDecoded =>
          /\ last.ret.ok
          /\ last.ret.v.direct_failures = Tolerant(Typed("direct_failures", "int"), TRUE, 0)
          /\ LET speed == Typed(OPTION_TRACKPAD_SPEED, "int") IN
             last.ret.v.trackpad_speed =
                Tolerant(speed, speed[1] >= 10 /\ speed[1] <= 1000, default_trackpad_speed(USER_DEFAULT_CONFIG))
          /\ LET quality == Typed(OPTION_CUSTOM_IMAGE_QUALITY, "array") IN
             last.ret.v.custom_image_quality =
                Tolerant(quality, /\ Len(quality[1]) = 1
                                  /\ quality[1][1] >= 10 /\ quality[1][1] <= 4095,
                         default_custom_image_quality(USER_DEFAULT_CONFIG))
    /\ NetworkDecoded =>
          /\ last.ret.ok
          /\ last.ret.v.nat_type = Tolerant(Typed("nat_type", "int"), TRUE, 0)
          /\ LET socks == Typed("socks", "table") IN
             last.ret.v.socks =
                IF socks = None THEN None
                ELSE Some([password |->
                             IF "password" \in DOMAIN socks[1] /\ socks[1].password.t = "str"
                             THEN socks[1].password.s ELSE ""])

\* C23: a PeerConfig decoded from a document has a custom_image_quality of one integer
\* in 10..4095 and a trackpad_speed in 10..1000; a stored value in the range is kept, an
\* integer outside the range or a list of another length is replaced by the default,
\* which lies in the range.
C23_PeerRanges ==
    (PeerDecoded /\ last.ret.ok) =>
       LET speed == Typed(OPTION_TRACKPAD_SPEED, "int")
           quality == Typed(OPTION_CUSTOM_IMAGE_QUALITY, "array")
           peer == last.ret.v
       IN /\ peer.trackpad_speed \in 10..1000
          /\ Len(peer.custom_image_quality) = 1
          /\ peer.custom_image_quality[1] \in 10..4095
          /\ default_trackpad_speed(USER_DEFAULT_CONFIG) \in 10..1000
          /\ default_custom_image_quality(USER_DEFAULT_CONFIG)[1] \in 10..4095
          /\ speed # None =>
                peer.trackpad_speed =
                   IF speed[1] \in 10..1000 THEN speed[1] ELSE default_trackpad_speed(USER_DEFAULT_CONFIG)
          /\ quality # None =>
                peer.custom_image_quality =
                   IF Len(quality[1]) = 1 /\ quality[1][1] \in 10..4095 THEN quality[1]
                   ELSE default_custom_image_quality(USER_DEFAULT_CONFIG)

\* trackpad-speed = 1001 and custom_image_quality = [5] are decoded while the user's
\* defaults are 200 and a text that is no number: the result has 200 and [50]
C23_Witness ==
    /\ PeerDecoded /\ last.ret.ok
    /\ Typed(OPTION_TRACKPAD_SPEED, "int") = Some(1001)
    /\ Typed(OPTION_CUSTOM_IMAGE_QUALITY, "array") = Some(<< 5 >>)
    /\ last.ret.v.trackpad_speed = 200
    /\ last.ret.v.custom_image_quality = << 50 >>


\* C24: a LocalConfig::set_size(x, y, w, h) with w < 300 or h < 300 changes neither the
\* size in memory nor the file; with w >= 300, h >= 300 and a size that differs from the
\* current one the new size is in memory and in the file; so a size that a call has
\* changed has w >= 300 and h >= 300.
C24_SetSize ==
    [][last'.op = "LocalConfig::set_size" =>
         LET size == last'.arg IN
         /\ (size[3] < 300 \/ size[4] < 300)
               => LOCAL_CONFIG' = LOCAL_CONFIG /\ file_local' = file_local
         /\ (size[3] >= 300 /\ size[4] >= 300 /\ size # LOCAL_CONFIG.size)
               => LOCAL_CONFIG'.size = size /\ file_local'.size = size
         /\ LOCAL_CONFIG'.size # LOCAL_CONFIG.size
               => LOCAL_CONFIG'.size[3] >= 300 /\ LOCAL_CONFIG'.size[4] >= 300]_vars

\* a size of 800 x 300 was stored over a loaded one, and a later call with the width 299
\* has left it in memory and in the file
C24_Witness ==
    /\ last.op = "LocalConfig::set_size"
    /\ last.arg = << 1, 1, 299, 800 >>
    /\ LOCAL_CONFIG.size = << 1, 0, 800, 300 >>
    /\ file_local.size = << 1, 0, 800, 300 >>


\* the file of each singleton, the encoding of its value in memory, and its lock
EntityFiles ==
    [CONFIG |-> << file_config, Config_store(CONFIG) >>,
     CONFIG2 |-> << file_config2, Config2_store(CONFIG2) >>,
     LOCAL_CONFIG |-> << file_local, LocalConfig_store(LOCAL_CONFIG) >>,
     STATUS |-> << file_status, STATUS >>]

\* C25 as stated: a write operation on a singleton has released the lock of the singleton
\* when it writes the file, it writes holding no lock.
C25_Original ==
    [][\A l \in DOMAIN EntityFiles : EntityFiles[l][1]' # EntityFiles[l][1] => wlock[l] = 0]_vars

\* C25: a write operation on a singleton writes the file while it holds the write guard
\* of the singleton, and drops the guard when it returns; what it writes is the encoding
\* of the value in memory, so the files are written in the order of the mutations.
C25_WriteUnderGuard ==
    [][\A l \in DOMAIN EntityFiles :
          EntityFiles[l][1]' # EntityFiles[l][1]
             => /\ wlock[l] \in Threads
                /\ pc[wlock[l]] # pc'[wlock[l]]
                /\ wlock'[l] = 0
                /\ EntityFiles[l][2]' = EntityFiles[l][2]
                /\ EntityFiles[l][1]' = EntityFiles[l][2]]_vars

\* thread 1 has changed the nat type and holds the guard, the file is not written yet,
\* and thread 2 waits for the guard in set_option
C25_Witness ==
    /\ pc[1] = "snt_store" /\ wlock["CONFIG2"] = 1
    /\ pc[2] = "so_lock"
    /\ file_config2 # Config2_store(CONFIG2)

\* C26: when the mutating operations that ran concurrently on the identity, the network
\* record, the local record and the status have all returned, the file of each holds
\* the encoding of its value in memory.
C26_FilesFollowMemory ==
    AllIdle => \A l \in DOMAIN EntityFiles : EntityFiles[l][1] = EntityFiles[l][2]

\* set_option and set_nat_type have run concurrently and both have returned: the record
\* in memory has both changes, set_nat_type returned last
C26_Witness ==
    /\ AllIdle
    /\ last.op = "Config::set_nat_type"
    /\ CONFIG2.nat_type = 1
    /\ "a" \in DOMAIN CONFIG2.options
    /\ file_config2 = Config2_store(CONFIG2)

\* the labels at which a thread asks for the write guard of a singleton
WriteAt ==
    [CONFIG |-> {"si_lock", "hk_lock", "cs_lock", "spp_lock"},
     CONFIG2 |-> {"snt_lock", "so_lock", "c2s_lock", "std_lock"},
     LOCAL_CONFIG |-> {"lss_lock", "kb_lock"},
     STATUS |-> {"sts_lock"},
     TRUSTED_DEVICES |-> {"gtd_write_cache", "std_cache"}]

C28_LoadId ==
    last.op = "Config::load" =>
       LET file == last.before
           enc_id == decrypt_str_or_original(file.enc_id, PASSWORD_ENC_VERSION)
           legacy == /\ file.id # ""
                     /\ file.enc_id = Text("")
                     /\ ~decrypt_str_or_original(Text(file.id), PASSWORD_ENC_VERSION)[2]
           tries == last.seen
           n == Len(tries)
       IN IF enc_id[2]
          THEN CONFIG.id = enc_id[1].s /\ n = 0
          ELSE IF legacy
          THEN CONFIG.id = file.id /\ n = 0 /\ file_config = Config_store(CONFIG)
          ELSE /\ n \in 1 .. 3
               /\ \A i \in 1 .. n - 1 : tries[i] = None
               /\ n < 3 => tries[n] # None
               /\ tries[n] # None => CONFIG.id = tries[n][1] /\ file_config = Config_store(CONFIG)

\* the id field of the file is a ciphertext and enc_id is empty: the first gen_id failed,
\* the second gave the id
C28_Witness ==
    /\ last.op = "Config::load"
    /\ last.before.id = EncryptedI4
    /\ last.before.enc_id = Text("")
    /\ last.seen = << None, Some("i2") >>
    /\ CONFIG.id = "i2"


ListedCall == last.op \in {"PeerConfig::batch_peers", "PeerConfig::peers"}

\* no peer of the result has an empty platform
NoEmptyPlatform == \A i \in DOMAIN last.ret[1] : last.ret[1][i][2].platform # ""

\* C30: batch_peers and peers return no peer with an empty platform, and every peer file
\* they have loaded whose platform is empty is gone from the directory afterwards.
C30_Original ==
    ListedCall =>
       /\ NoEmptyPlatform
       /\ \A i \in DOMAIN last.before :
             LET path == PeerConfig_path(last.before[i][1]) IN
             (path \in DOMAIN last.old /\ last.old[path].platform = "")
                => path \notin DOMAIN file_peer


(***************************************************************************)
(* Claims about the loaders, the trusted devices cache, the latencies,     *)
(* the locks, the options, the passwords, the keys, the paths and socks    *)
(***************************************************************************)
\* decrypt_str_or_original on the stored text t reports that a rewrite is due
NeedsRewrite(t) == decrypt_str_or_original(t, PASSWORD_ENC_VERSION)[3]

\* the stored text t is a secret that is not encrypted
Plaintext(t) == t.ver = "" /\ t.s # ""

\* the stored text t is the ciphertext of s
CiphertextOf(t, s) == t.ver = PASSWORD_ENC_VERSION /\ t.s = s

\* Config::load stores iff a decryption asked for a rewrite, or the id was adopted from
\* the id field or generated
IdentityMigrated ==
    last.op = "Config::load" =>
       LET file == last.before
           adopted == /\ ~decrypt_str_or_original(file.enc_id, PASSWORD_ENC_VERSION)[2]
                      /\ file.id # ""
                      /\ file.enc_id = Text("")
                      /\ ~decrypt_str_or_original(Text(file.id), PASSWORD_ENC_VERSION)[2]
           generated == \E i \in DOMAIN last.seen : last.seen[i] # None
       IN last.cached
             <=> (NeedsRewrite(file.password) \/ NeedsRewrite(file.enc_id) \/ adopted \/ generated)

\* Config2::load stores iff a decryption asked for a rewrite; then the pin and the SOCKS
\* password that were plaintext in the file are ciphertext there and plaintext in CONFIG2
NetworkMigrated ==
    last.op = "Config2::load" =>
       LET file == last.before
           socks == file.socks # None /\ NeedsRewrite(file.socks[1].password)
       IN /\ last.cached <=> (NeedsRewrite(file.unlock_pin) \/ socks)
          /\ (last.cached /\ Plaintext(file.unlock_pin))
                => /\ CiphertextOf(file_config2.unlock_pin, file.unlock_pin.s)
                   /\ CONFIG2.unlock_pin = file.unlock_pin.s
          /\ (last.cached /\ file.socks # None /\ Plaintext(file.socks[1].password))
                => /\ CiphertextOf(file_config2.socks[1].password, file.socks[1].password.s)
                   /\ CONFIG2.socks[1].password = file.socks[1].password.s

\* PeerConfig::load on a file that was read stores iff a decryption asked for a rewrite;
\* when the store succeeded the secrets that were plaintext in the file are ciphertext
\* there and plaintext in the record returned
PeerMigrated ==
    (last.op = "PeerConfig::load" /\ last.arg[2] /\ last.old # NoPeerFile) =>
       LET id == last.arg[1]
           file == last.old[1]
           secrets == DOMAIN file.options \cap PeerSecretOptions
           needed == NeedsRewrite(file.password)
                        \/ \E opt \in secrets : NeedsRewrite(file.options[opt])
       IN /\ needed => id \in NEW_STORED_PEER_CONFIG
          /\ ~needed => file_peer[id] = last.old
          /\ (needed /\ last.arg[3] /\ Plaintext(file.password))
                => /\ CiphertextOf(file_peer[id][1].password, file.password.s)
                   /\ last.ret.password = file.password.s
          /\ \A opt \in secrets :
                (needed /\ last.arg[3] /\ Plaintext(file.options[opt]))
                   => /\ CiphertextOf(file_peer[id][1].options[opt], file.options[opt].s)
                      /\ last.ret.options[opt] = file.options[opt].s

\* C31: each loader stores after the load iff a decryption of one of its encrypted fields
\* asked for a rewrite (or, for the identity, the id was adopted from the id field or
\* generated); after the store a network or peer file that held plaintext secrets holds
\* ciphertext and the record in memory holds the plaintext.
C31_Original == IdentityMigrated /\ NetworkMigrated /\ PeerMigrated


\* the list that decrypting and decoding CONFIG2.trusted_devices gives, without the
\* expired devices
StoredFresh ==
    LET dec == decrypt_str_or_original(CONFIG2.trusted_devices, PASSWORD_ENC_VERSION)
    IN IF dec[2] THEN RetainFresh(from_str(dec[1])) ELSE << >>

\* C32: whenever the TRUSTED_DEVICES cache is flagged synchronized and no call is in
\* progress, its list is the list of the non-expired devices that CONFIG2.trusted_devices
\* decodes to.
C32_Original == (AllIdle /\ TRUSTED_DEVICES[2]) => TRUSTED_DEVICES[1] = StoredFresh


\* the devices of a list
Elements(list) == {list[i] : i \in DOMAIN list}

\* C33: add_trusted_device is atomic with respect to the other calls that change the
\* list: when a call add_trusted_device(device) writes the list to CONFIG2, every device
\* with another hardware id that the record held just before is still in it, so that no
\* update of a concurrent call is lost and two concurrent calls leave both devices.
C33_Original ==
    [][\A t \in Threads :
          (/\ loc[t].op = "Config::add_trusted_device"
           /\ pc[t] = "std_lock"
           /\ pc'[t] = "std_store")
             => \A d \in Elements(FileDevices(CONFIG2)) :
                   d.hwid # loc[t].arg.hwid => d \in Elements(FileDevices(CONFIG2'))]_vars


\* C34: when the concurrent calls of update_latency have all returned and ONLINE holds a
\* host with a positive latency, CONFIG2.rendezvous_server is a host of ONLINE whose
\* latency is the least positive one.
C34_Original ==
    (AllIdle /\ \E h \in DOMAIN ONLINE : ONLINE[h] > 0)
       => /\ CONFIG2.rendezvous_server \in DOMAIN ONLINE
          /\ ONLINE[CONFIG2.rendezvous_server] > 0
          /\ \A h \in DOMAIN ONLINE :
                ONLINE[h] > 0 => ONLINE[CONFIG2.rendezvous_server] <= ONLINE[h]


\* every stored option has a key outside the overwrite map and a value that is not the
\* default of its key
AllSaveable(options) ==
    \A k \in DOMAIN options :
       /\ k \notin DOMAIN OVERWRITE_SETTINGS
       /\ MapGet(DEFAULT_SETTINGS, k) # Some(options[k])

\* C36: with the setting maps fixed, a call of Config::set_option or Config::set_options
\* on a stored option map in which every entry (k, v) has k outside OVERWRITE_SETTINGS
\* and v different from DEFAULT_SETTINGS[k] leaves a stored option map of that kind.
C36_PurifiedKept ==
    [][(family = "settings" /\ AllSaveable(CONFIG2.options)) => AllSaveable(CONFIG2'.options)]_vars

\* set_options was called with a map that had an overwritten key and the default value of
\* another key, and has stored what was left; set_option would be refused for both
C36_Witness ==
    /\ last.op = "Config::set_options"
    /\ \E k \in DOMAIN last.m : k \in DOMAIN OVERWRITE_SETTINGS
    /\ \E k \in DOMAIN last.m :
          k \notin DOMAIN OVERWRITE_SETTINGS /\ MapGet(DEFAULT_SETTINGS, k) = Some(last.m[k])
    /\ last.m # CONFIG2.options
    /\ AllSaveable(CONFIG2.options)


\* C37: for every password p, the call of Config::get_permanent_password that follows the
\* return of Config::set_permanent_password(p) returns p, also when p is the built-in
\* password of HARD_SETTINGS while another password is stored, and when p is empty while
\* HARD_SETTINGS has a password.
C37_Original ==
    (/\ last.op = "Config::get_permanent_password"
     /\ last.seen[1] = "Config::set_permanent_password")
       => last.ret = last.seen[2]


\* C38: from an empty keys_confirmed map, after every sequence of set_key_confirmed and
\* set_host_key_confirmed calls: when the key_confirmed flag of the identity is false,
\* get_host_key_confirmed(h) is false for every host h.
C38_Original ==
    (AllIdle /\ ~CONFIG.key_confirmed)
       => \A h \in ConfirmingHosts : ~Config_get_host_key_confirmed(h)


\* C39: PeerConfig::path maps distinct peer ids to distinct files, so that
\* PeerConfig::store and PeerConfig::remove of one peer leave the file of every other
\* peer as it is: neither overwritten nor deleted.
C39_Original ==
    [][\A id \in EncodedIds :
          (/\ last'.op \in {"PeerConfig::store", "PeerConfig::remove"}
           /\ id # (IF last'.op = "PeerConfig::store" THEN last'.arg[1] ELSE last'.arg)
           /\ PeerConfig_path(id) \in DOMAIN file_peer)
             => /\ PeerConfig_path(id) \in DOMAIN file_peer'
                /\ file_peer'[PeerConfig_path(id)] = file_peer[PeerConfig_path(id)]]_vars


\* C40: Config::get_network_type() is ProxySocks exactly when Config::get_socks() is
\* Some, in every state that set_socks and the writes of the overwrite and default
\* setting maps lead to; the result of a call of either agrees with the other one
\* evaluated in the state the call returned in.
C40_SameAnswer ==
    /\ (Config_get_network_type = "ProxySocks") <=> (Config_get_socks # None)
    /\ last.op = "Config::get_socks"
          => ((last.ret # None) <=> (Config_get_network_type = "ProxySocks"))
    /\ last.op = "Config::get_network_type"
          => ((last.ret = "ProxySocks") <=> (Config_get_socks # None))

\* get_network_type has answered ProxySocks where nothing is stored and the overwrite map
\* has no proxy: the proxy comes from the default map alone
C40_Witness ==
    /\ last.op = "Config::get_network_type"
    /\ last.ret = "ProxySocks"
    /\ CONFIG2.socks = None
    /\ OPTION_PROXY_URL \notin DOMAIN OVERWRITE_SETTINGS
    /\ Config_get_socks =
          Some([proxy |-> "u", username |-> "", password |-> "u"])


\* thread t waits for a guard that it cannot get in this state
Blocked(t) ==
    /\ pc[t] = "locks"
    /\ loc[t].stack # << >>
    /\ LET kind == Head(loc[t].stack)[1]
           l == Head(loc[t].stack)[2]
       IN \/ kind = "read" /\ ~ReadAdmitted(l)
          \/ kind = "write" /\ loc[t].cached /\ ~CanWrite(l)

\* C35: no execution deadlocks: in no interleaving of the operations are the threads that
\* are inside an operation all waiting for a guard of CONFIG, CONFIG2, TRUSTED_DEVICES,
\* ONLINE or the setting maps that another waiting thread holds or waits for.
C35_Original ==
    ~(/\ \E t \in Threads : pc[t] = "locks"
      /\ \A t \in Threads : pc[t] = "locks" => Blocked(t))


====
